---- MODULE Spec2Model ----
(***************************************************************************)
(* Model of src/utils/regressionMath.js (Teach-Linear-Regression).         *)
(*                                                                         *)
(* JavaScript numbers are IEEE-754 binary64 values.  They are modelled by  *)
(* a binary floating-point format of the same shape and smaller size: a    *)
(* significand of Prec bits (binary64: 53), overflow to an infinity when   *)
(* the magnitude of a rounded result reaches 2^MaxExp (binary64: 2^1024),  *)
(* and gradual underflow, every finite value being a multiple of 2^-Frac   *)
(* (binary64: 2^-1074).  Every arithmetic operation returns the exact      *)
(* result rounded to the nearest representable value, ties to even.  NaN   *)
(* and the two infinities follow the IEEE rules.  The two zeros are one    *)
(* value: the code never divides by a negative zero and never inspects    *)
(* the sign of a zero.                                                     *)
(*                                                                         *)
(* Prec = 5 is congruent to 53 modulo 12, so that thirds and tenths (the   *)
(* means of three points, the literals 0.1 and 0.01) have the same bit     *)
(* after the last kept one as in binary64 and are rounded in the same      *)
(* direction.                                                              *)
(***************************************************************************)
EXTENDS Integers, Sequences, FiniteSets, TLC

\* ------------------------------------------------------------------------
\* Bounds of the model
\* ------------------------------------------------------------------------
Prec == 5
MaxExp == 12
Frac == 40
MaxLen == 3
MaxLenGD == 2
MaxIter == 3
MaxLenOut == 5
MaxResolution == 2
MaxSampleN == 16
MaxVizPoints == 2
MaxVizSteps == 5
MaxSimInputs == 3
MaxDivergeAt == 2
MaxSimIterations == 4

\* ------------------------------------------------------------------------
\* Number values: <<"fin", m, e>> is m * 2^e with m odd (or m = 0, e = 0),
\* <<"inf", 1, 0>> and <<"inf", -1, 0>> the infinities, <<"nan", 0, 0>> NaN.
\* ------------------------------------------------------------------------
NaN == <<"nan", 0, 0>>
PosInf == <<"inf", 1, 0>>
NegInf == <<"inf", -1, 0>>
Zero == <<"fin", 0, 0>>

Inf(s) == IF s < 0 THEN NegInf ELSE PosInf

Abs(n) == IF n < 0 THEN -n ELSE n

Sgn(n) == IF n < 0 THEN -1 ELSE IF n > 0 THEN 1 ELSE 0

Min2(a, b) == IF a < b THEN a ELSE b

RECURSIVE BitLen(_)
BitLen(a) == IF a = 0 THEN 0 ELSE 1 + BitLen(a \div 2)

RECURSIVE Norm(_, _)
Norm(m, e) ==
    IF m = 0 THEN Zero
    ELSE IF m % 2 = 0 THEN Norm(m \div 2, e + 1)
    ELSE <<"fin", m, e>>

\* Finite result of magnitude q * 2^e and sign s, or the infinity of that
\* sign when the magnitude reaches 2^MaxExp.
Pack(s, q, e) ==
    LET v == Norm(s * q, e)
    IN  IF BitLen(Abs(v[2])) + v[3] > MaxExp THEN Inf(s) ELSE v

\* floor(a / d) rounded to nearest, ties to even
RoundDiv(a, d) ==
    LET q == a \div d
        r == a % d
    IN  IF 2 * r > d \/ (2 * r = d /\ q % 2 = 1) THEN q + 1 ELSE q

\* The value s * (a / d) * 2^e (a > 0, d > 0) rounded to the nearest
\* representable value: to Prec significant bits, or to a multiple of
\* 2^-Frac when that is coarser.
RoundQ(s, a, d, e) ==
    LET E0 == BitLen(a) - BitLen(d) - Prec
        Num(E) == IF E >= 0 THEN a ELSE a * 2^(-E)
        Den(E) == IF E >= 0 THEN d * 2^E ELSE d
        E1 == IF Num(E0) \div Den(E0) >= 2^Prec THEN E0 + 1 ELSE E0
        E == IF e + E1 >= -Frac THEN E1 ELSE -Frac - e
    IN  IF E - E1 > Prec + 1 THEN Zero
        ELSE Pack(s, RoundDiv(Num(E), Den(E)), e + E)

\* Number(n) for an integer n, and a decimal literal n/d
FromInt(n) == IF n = 0 THEN Zero ELSE RoundQ(Sgn(n), Abs(n), 1, 0)

Lit(n, d) == IF n = 0 THEN Zero ELSE RoundQ(Sgn(n), Abs(n), d, 0)

isFinite(x) == x[1] = "fin"

isNaN(x) == x[1] = "nan"

FNeg(x) == IF isNaN(x) THEN NaN ELSE <<x[1], -x[2], x[3]>>

\* x + y
FAdd(x, y) ==
    IF isNaN(x) \/ isNaN(y) THEN NaN
    ELSE IF ~isFinite(x) /\ ~isFinite(y) THEN (IF x = y THEN x ELSE NaN)
    ELSE IF ~isFinite(x) THEN x
    ELSE IF ~isFinite(y) THEN y
    ELSE IF x[2] = 0 THEN y
    ELSE IF y[2] = 0 THEN x
    ELSE LET tx == BitLen(Abs(x[2])) + x[3]
             ty == BitLen(Abs(y[2])) + y[3]
         IN  IF tx - ty > Prec + 2 THEN x
             ELSE IF ty - tx > Prec + 2 THEN y
             ELSE LET e == Min2(x[3], y[3])
                      n == x[2] * 2^(x[3] - e) + y[2] * 2^(y[3] - e)
                  IN  IF n = 0 THEN Zero ELSE RoundQ(Sgn(n), Abs(n), 1, e)

\* x - y
FSub(x, y) == FAdd(x, FNeg(y))

\* x * y
FMul(x, y) ==
    IF isNaN(x) \/ isNaN(y) THEN NaN
    ELSE IF ~isFinite(x) \/ ~isFinite(y)
         THEN (IF x[2] = 0 \/ y[2] = 0 THEN NaN ELSE Inf(Sgn(x[2]) * Sgn(y[2])))
    ELSE IF x[2] = 0 \/ y[2] = 0 THEN Zero
    ELSE RoundQ(Sgn(x[2]) * Sgn(y[2]), Abs(x[2]) * Abs(y[2]), 1, x[3] + y[3])

\* x / y
FDiv(x, y) ==
    IF isNaN(x) \/ isNaN(y) THEN NaN
    ELSE IF ~isFinite(x) /\ ~isFinite(y) THEN NaN
    ELSE IF ~isFinite(x) THEN Inf(x[2] * (IF y[2] < 0 THEN -1 ELSE 1))
    ELSE IF ~isFinite(y) THEN Zero
    ELSE IF y[2] = 0 THEN (IF x[2] = 0 THEN NaN ELSE Inf(x[2]))
    ELSE IF x[2] = 0 THEN Zero
    ELSE RoundQ(Sgn(x[2]) * Sgn(y[2]), Abs(x[2]), Abs(y[2]), x[3] - y[3])

\* x ** 2
FSquare(x) == FMul(x, x)

\* x === y
StrictEq(x, y) == ~isNaN(x) /\ x = y

\* x < y and x <= y
FLt(x, y) ==
    /\ ~isNaN(x) /\ ~isNaN(y)
    /\ x # y
    /\ FSub(x, y)[2] < 0

FLe(x, y) == ~isNaN(x) /\ ~isNaN(y) /\ (x = y \/ FLt(x, y))

\* Math.abs(x)
FAbs(x) == IF isNaN(x) THEN NaN ELSE <<x[1], Abs(x[2]), x[3]>>

\* The integer part of the square root of a natural number
RECURSIVE ISqrt(_)
ISqrt(n) ==
    IF n < 2 THEN n
    ELSE LET s == 2 * ISqrt(n \div 4)
         IN  IF (s + 1) * (s + 1) <= n THEN s + 1 ELSE s

\* Math.sqrt(x): the square root rounded to the nearest representable value.
\* The root of m * 4^(Prec + 2) has more than Prec + 2 bits; the bit added
\* after them tells whether the root has further non-zero bits.
FSqrt(x) ==
    IF isNaN(x) \/ x[2] < 0 THEN NaN
    ELSE IF ~isFinite(x) THEN PosInf
    ELSE IF x[2] = 0 THEN Zero
    ELSE LET odd == x[3] % 2 = 1
             m == IF odd THEN 2 * x[2] ELSE x[2]
             e == IF odd THEN x[3] - 1 ELSE x[3]
             v == m * 4^(Prec + 2)
             r == ISqrt(v)
             rest == IF r * r = v THEN 0 ELSE 1
         IN  RoundQ(1, 2 * r + rest, 1, (e \div 2) - (Prec + 2) - 1)

\* Math.floor(x) of a finite x, as an integer
MathFloor(x) == IF x[3] >= 0 THEN x[2] * 2^x[3] ELSE x[2] \div 2^(-x[3])

\* ------------------------------------------------------------------------
\* Inputs
\* ------------------------------------------------------------------------
\* A point is [x |-> number, y |-> number]
XCoords == {FromInt(0), FromInt(1), FromInt(2)}

YCoords == {FromInt(0), FromInt(1)}

Points == [x : XCoords, y : YCoords]

PointSeqs(maxLen) == UNION {[1..n -> Points] : n \in 0..maxLen}

\* Learning rates: zero, the default 0.01, a small step, a large step and a
\* step that overflows in one epoch
LearningRates == {Zero, Lit(1, 100), Lit(1, 4), FromInt(16), FromInt(1024)}

InitialParams == {Zero, FromInt(1)}

\* ------------------------------------------------------------------------
\* calculateMSE
\* ------------------------------------------------------------------------
\* points.reduce((acc, p) => acc + (p.y - (slope * p.x + intercept)) ** 2, 0)
RECURSIVE SumSquaredError(_, _, _, _)
SumSquaredError(pts, slope, intercept, k) ==
    IF k = 0 THEN Zero
    ELSE LET p == pts[k]
             predicted == FAdd(FMul(slope, p.x), intercept)
         IN  FAdd(SumSquaredError(pts, slope, intercept, k - 1),
                  FSquare(FSub(p.y, predicted)))

calculateMSE(pts, slope, intercept) ==
    IF Len(pts) = 0 THEN Zero
    ELSE FDiv(SumSquaredError(pts, slope, intercept, Len(pts)),
              FromInt(Len(pts)))

\* ------------------------------------------------------------------------
\* calculateRMSE, calculateMAE
\* ------------------------------------------------------------------------
\* Math.sqrt(calculateMSE(points, slope, intercept))
calculateRMSEOfSum(pts, slope, intercept) ==
    FSqrt(SumSquaredError(pts, slope, intercept, Len(pts)))

calculateRMSE(pts, slope, intercept) ==
    FSqrt(calculateMSE(pts, slope, intercept))

\* points.reduce((acc, p) => acc + Math.abs(p.y - (slope * p.x + intercept)), 0)
RECURSIVE SumAbsoluteError(_, _, _, _)
SumAbsoluteError(pts, slope, intercept, k) ==
    IF k = 0 THEN Zero
    ELSE LET p == pts[k]
             predicted == FAdd(FMul(slope, p.x), intercept)
         IN  FAdd(SumAbsoluteError(pts, slope, intercept, k - 1),
                  FAbs(FSub(p.y, predicted)))

calculateMAENoGuard(pts, slope, intercept) ==
    FDiv(SumAbsoluteError(pts, slope, intercept, Len(pts)), FromInt(Len(pts)))

calculateMAE(pts, slope, intercept) ==
    IF Len(pts) = 0 THEN Zero
    ELSE FDiv(SumAbsoluteError(pts, slope, intercept, Len(pts)),
              FromInt(Len(pts)))

\* ------------------------------------------------------------------------
\* calculateLinearRegression
\* ------------------------------------------------------------------------
\* points.reduce((acc, p) => acc + p.x, 0) over the first k points
RECURSIVE SumX(_, _)
SumX(pts, k) == IF k = 0 THEN Zero ELSE FAdd(SumX(pts, k - 1), pts[k].x)

\* points.reduce((acc, p) => acc + p.y, 0) over the first k points
RECURSIVE SumY(_, _)
SumY(pts, k) == IF k = 0 THEN Zero ELSE FAdd(SumY(pts, k - 1), pts[k].y)

\* sumX / n
MeanXOffByOne(pts) == FDiv(SumX(pts, Len(pts)), FromInt(Len(pts) - 1))

MeanX(pts) == FDiv(SumX(pts, Len(pts)), FromInt(Len(pts)))

MeanY(pts) == FDiv(SumY(pts, Len(pts)), FromInt(Len(pts)))

\* numerator += (p.x - meanX) * (p.y - meanY)
RECURSIVE Numerator(_, _, _, _)
Numerator(pts, meanX, meanY, k) ==
    IF k = 0 THEN Zero
    ELSE FAdd(Numerator(pts, meanX, meanY, k - 1),
              FMul(FSub(pts[k].x, meanX), FSub(pts[k].y, meanY)))

\* denominator += (p.x - meanX) ** 2
RECURSIVE Denominator(_, _, _)
Denominator(pts, meanX, k) ==
    IF k = 0 THEN Zero
    ELSE FAdd(Denominator(pts, meanX, k - 1), FSquare(FSub(pts[k].x, meanX)))

\* denominator !== 0 ? numerator / denominator : 0
SlopeOfNoGuard(numerator, denominator) == FDiv(numerator, denominator)

SlopeOf(numerator, denominator) ==
    IF ~StrictEq(denominator, Zero) THEN FDiv(numerator, denominator) ELSE Zero

\* meanY - slope * meanX
InterceptOfPlus(meanY, m, meanX) == FAdd(meanY, FMul(m, meanX))

InterceptOf(meanY, m, meanX) == FSub(meanY, FMul(m, meanX))

\* points.map(p => ({ x, yActual, yPredicted: slope * p.x + intercept }))
PredictionsReversed(pts, m, b) ==
    [k \in 1..Len(pts) |->
        [x |-> pts[Len(pts) + 1 - k].x, yActual |-> pts[Len(pts) + 1 - k].y,
         yPredicted |-> FAdd(FMul(m, pts[Len(pts) + 1 - k].x), b)]]

Predictions(pts, m, b) ==
    [k \in 1..Len(pts) |->
        [x |-> pts[k].x, yActual |-> pts[k].y,
         yPredicted |-> FAdd(FMul(m, pts[k].x), b)]]

\* points.length < 2
TooFewNever(pts) == FALSE

TooFew(pts) == Len(pts) < 2

calculateLinearRegression(pts) ==
    IF TooFew(pts)
    THEN [slope |-> Zero, intercept |-> Zero, predictions |-> <<>>]
    ELSE LET meanX == MeanX(pts)
             meanY == MeanY(pts)
             m == SlopeOf(Numerator(pts, meanX, meanY, Len(pts)),
                          Denominator(pts, meanX, Len(pts)))
             b == InterceptOf(meanY, m, meanX)
         IN  [slope |-> m, intercept |-> b,
              predictions |-> Predictions(pts, m, b),
              meanX |-> meanX, meanY |-> meanY]

\* ------------------------------------------------------------------------
\* calculateR2
\* ------------------------------------------------------------------------
\* points.reduce((acc, p) => acc + (p.y - meanY) ** 2, 0)
RECURSIVE SsTot(_, _, _)
SsTot(pts, meanY, k) ==
    IF k = 0 THEN Zero
    ELSE FAdd(SsTot(pts, meanY, k - 1), FSquare(FSub(pts[k].y, meanY)))

\* 1 - (ssRes / ssTot)
R2OfSwapped(ssRes, ssTot) == FSub(FromInt(1), FDiv(ssTot, ssRes))

R2Of(ssRes, ssTot) == FSub(FromInt(1), FDiv(ssRes, ssTot))

calculateR2(pts, m, b) ==
    IF Len(pts) < 2 THEN Zero
    ELSE LET ssRes == SumSquaredError(pts, m, b, Len(pts))
             ssTot == SsTot(pts, MeanY(pts), Len(pts))
         IN  IF StrictEq(ssTot, Zero) THEN Zero ELSE R2Of(ssRes, ssTot)

\* ------------------------------------------------------------------------
\* generateCostSurface
\* ------------------------------------------------------------------------
\* args is [slopeRange, interceptRange, resolution], a range being <<min, max>>
\* (range[0] and range[1] of the code).
\* (range[1] - range[0]) / resolution
StepOf(range, resolution) ==
    FDiv(FSub(range[2], range[1]), FromInt(resolution))

\* The body of the inner loop at (i, j): s, b and calculateMSE(points, s, b)
SurfaceCellTransposed(pts, args, i, j) ==
    LET s == FAdd(args.slopeRange[1],
                  FMul(FromInt(j), StepOf(args.slopeRange, args.resolution)))
        b == FAdd(args.interceptRange[1],
                  FMul(FromInt(i),
                       StepOf(args.interceptRange, args.resolution)))
    IN  [slope |-> s, intercept |-> b, cost |-> calculateMSE(pts, s, b)]

SurfaceCell(pts, args, i, j) ==
    LET s == FAdd(args.slopeRange[1],
                  FMul(FromInt(i), StepOf(args.slopeRange, args.resolution)))
        b == FAdd(args.interceptRange[1],
                  FMul(FromInt(j),
                       StepOf(args.interceptRange, args.resolution)))
    IN  [slope |-> s, intercept |-> b, cost |-> calculateMSE(pts, s, b)]

\* for (let j = 0; j <= resolution; j++) { ...; row.push(...) }: the row i of
\* one of the three arrays after n passes
RECURSIVE SurfaceRow(_, _, _, _, _)
SurfaceRow(pts, args, field, i, n) ==
    IF n = 0 THEN <<>>
    ELSE Append(SurfaceRow(pts, args, field, i, n - 1),
                SurfaceCell(pts, args, i, n - 1)[field])

\* for (let i = 0; i <= resolution; i++) { ...; rows.push(row) }: one of the
\* three arrays after n passes
RECURSIVE SurfaceRows(_, _, _, _)
SurfaceRows(pts, args, field, n) ==
    IF n = 0 THEN <<>>
    ELSE Append(SurfaceRows(pts, args, field, n - 1),
                SurfaceRow(pts, args, field, n - 1, args.resolution + 1))

generateCostSurface(pts, args) ==
    [slopes |-> SurfaceRows(pts, args, "slope", args.resolution + 1),
     intercepts |-> SurfaceRows(pts, args, "intercept", args.resolution + 1),
     costs |-> SurfaceRows(pts, args, "cost", args.resolution + 1)]

\* ------------------------------------------------------------------------
\* detectOutliers
\* ------------------------------------------------------------------------
\* points.map((p, i) => ({ index: i, residual: Math.abs(p.y - (...)) }))
ResidualsWithoutIndex(pts, m, b) ==
    [k \in 1..Len(pts) |->
        [index |-> 0,
         residual |-> FAbs(FSub(pts[k].y, FAdd(FMul(m, pts[k].x), b)))]]

Residuals(pts, m, b) ==
    [k \in 1..Len(pts) |->
        [index |-> k - 1,
         residual |-> FAbs(FSub(pts[k].y, FAdd(FMul(m, pts[k].x), b)))]]

\* One more element put at its place in an ascending sequence, after the
\* elements that do not compare greater (the sort is stable)
InsertByResidual(sorted, r) ==
    LET before == Cardinality({j \in 1..Len(sorted) :
                                 ~FLt(r.residual, sorted[j].residual)})
    IN  SubSeq(sorted, 1, before) \o <<r>>
            \o SubSeq(sorted, before + 1, Len(sorted))

\* [...residuals].sort((a, b) => a.residual - b.residual), the residuals
\* being numbers other than NaN
RECURSIVE SortByResidual(_, _)
SortByResidual(rs, k) ==
    IF k = 0 THEN <<>>
    ELSE InsertByResidual(SortByResidual(rs, k - 1), rs[k])

\* Math.floor(sorted.length * 0.25) and Math.floor(sorted.length * 0.75)
Q1Index(n) == MathFloor(FMul(FromInt(n), Lit(1, 4)))

\* The upper quartile taken at the median position
Q3IndexAtMedian(n) == MathFloor(FMul(FromInt(n), Lit(1, 2)))

Q3Index(n) == MathFloor(FMul(FromInt(n), Lit(3, 4)))

\* q3 + 1.5 * iqr
ThresholdOf(q1, q3) == FAdd(q3, FMul(Lit(3, 2), FSub(q3, q1)))

\* r.residual > threshold
IsOutlierOrEqual(residual, threshold) == FLe(threshold, residual)

IsOutlier(residual, threshold) == FLt(threshold, residual)

\* points.length < 4
TooFewForQuartiles(pts) == Len(pts) < 4

\* The indices of the residuals above the smallest one
detectOutliersAboveSmallest(pts, m, b) ==
    LET residuals == Residuals(pts, m, b)
        Keep(r) == \E k \in 1..Len(pts) :
                       FLt(residuals[k].residual, r.residual)
        kept == SelectSeq(residuals, Keep)
    IN  [k \in 1..Len(kept) |-> kept[k].index]

detectOutliers(pts, m, b) ==
    IF TooFewForQuartiles(pts) THEN <<>>
    ELSE LET residuals == Residuals(pts, m, b)
             sorted == SortByResidual(residuals, Len(residuals))
             q1 == sorted[Q1Index(Len(sorted)) + 1].residual
             q3 == sorted[Q3Index(Len(sorted)) + 1].residual
             threshold == ThresholdOf(q1, q3)
             Keep(r) == IsOutlier(r.residual, threshold)
             kept == SelectSeq(residuals, Keep)
         IN  [k \in 1..Len(kept) |-> kept[k].index]

\* ------------------------------------------------------------------------
\* gradientDescent
\* ------------------------------------------------------------------------
\* points                  the dataset passed to the functions
\* learningRate .. result  the arguments, the locals and the return value of
\*                         gradientDescent; pc is its position
\* regression, metrics     calculateLinearRegression(points) and the metrics
\*                         at its slope and intercept
\* candidate, candidateMetrics
\*                         another (slope, intercept) pair and the metrics
\*                         at it
\* fpc                     which of these have been computed
\* outliers                detectOutliers(points, candidate.slope,
\*                         candidate.intercept)
\* reordered               the same points in another order, with the results
\*                         of the same functions on them
\* surfaceArgs, surface    the ranges and the resolution passed to
\*                         generateCostSurface, and its result
\* sampleCall              the arguments of a call of generateSampleDataset
\* sampleType, sampleN, sampleI
\*                         type, n and i of its running activation, which
\*                         fills points
\* rng                     the state of the generator behind Math.random
\* randoms                 the numbers Math.random has returned to the call
\* spc                     the position in generateSampleDataset
\* earlier                 an earlier call of generateSampleDataset: its
\*                         arguments, the numbers Math.random gave it and
\*                         the points it returned
\* penaltyArgs, cost, ppc  the arguments of a call of ridgeRegularization or
\*                         lassoRegularization, its result, and which of the
\*                         two was called
\* formatArgs, formatted   the arguments of a call of formatNumber and what
\*                         came of it
\* outlierIndices, selectedPoint
\*                         the state of RegressionVisualizer next to points:
\*                         the indices marked as outliers and the selected
\*                         index, <<k>>, or <<>> for null
\* vizSteps                how many of its handlers have run
\* isPlaying, currentEpoch, speed
\*                         the state of GradientDescentSimulator next to
\*                         points, learningRate and iterations, as of its
\*                         last render
\* animationRef, timers    animationRef.current (0 for null) and the timeouts
\*                         that are set and have neither fired nor been
\*                         cleared
\* gdResult                the memoized gradientDescent(...) of the last
\*                         render: the length of its history, and converged
\* divergesAt              the epoch at which gradient descent on points
\*                         with learningRate first has a loss that is not
\*                         finite, 0 if it has none within MaxDivergeAt
\* epochBase, epochUpdates the updates of currentEpoch that React holds and
\*                         the state they apply to; an update has the lane
\*                         it was made in
\* playingBase, playingUpdates
\*                         the same for isPlaying
\* inputs, lastInput       how many inputs the user has made, and the last
VARIABLES points, learningRate, iterations, initialSlope, initialIntercept,
          slope, intercept, i, history, pc, result,
          regression, metrics, candidate, candidateMetrics, fpc,
          outliers, reordered, surfaceArgs, surface,
          sampleCall, sampleType, sampleN, sampleI, rng, randoms, spc,
          earlier,
          penaltyArgs, cost, ppc, formatArgs, formatted,
          outlierIndices, selectedPoint, vizSteps,
          isPlaying, currentEpoch, speed, animationRef, timers, gdResult,
          divergesAt, epochBase, epochUpdates, playingBase, playingUpdates,
          inputs, lastInput

gdVars == <<learningRate, iterations, initialSlope, initialIntercept,
            slope, intercept, i, history, pc, result>>

fitVars == <<regression, metrics, candidate, candidateMetrics, fpc>>

toolVars == <<outliers, reordered, surfaceArgs, surface>>

sampleVars == <<sampleCall, sampleType, sampleN, sampleI, rng, randoms, spc,
                earlier>>

displayVars == <<penaltyArgs, cost, ppc, formatArgs, formatted>>

vizVars == <<outlierIndices, selectedPoint, vizSteps>>

simVars == <<isPlaying, currentEpoch, speed, animationRef, timers, gdResult,
             divergesAt, epochBase, epochUpdates, playingBase,
             playingUpdates, inputs, lastInput>>

appVars == <<sampleVars, displayVars, vizVars, simVars>>

vars == <<points, gdVars, fitVars, toolVars, appVars>>

notSampleVars == <<gdVars, fitVars, toolVars, displayVars, vizVars, simVars>>

notDisplayVars ==
    <<points, gdVars, fitVars, toolVars, sampleVars, vizVars, simVars>>

notVizVars == <<gdVars, fitVars, toolVars, displayVars, sampleCall, sampleType,
                sampleN, sampleI, randoms, spc, earlier, simVars>>

notSimVars == <<initialSlope, initialIntercept, slope, intercept, i, history,
                pc, result, fitVars, toolVars, displayVars, vizVars,
                sampleCall, sampleType, sampleN, sampleI, randoms, spc,
                earlier>>

NoRegression == [slope |-> Zero, intercept |-> Zero, predictions |-> <<>>]

NoMetrics == [mse |-> Zero, rmse |-> Zero, mae |-> Zero, r2 |-> Zero]

NoCandidate == [slope |-> Zero, intercept |-> Zero]

FitIdle ==
    /\ regression = NoRegression
    /\ metrics = NoMetrics
    /\ candidate = NoCandidate
    /\ candidateMetrics = NoMetrics
    /\ fpc = "idle"

NoResult == [finalSlope |-> Zero, finalIntercept |-> Zero,
             history |-> <<>>, converged |-> FALSE]

NoReordered == [points |-> <<>>, from |-> <<>>, regression |-> NoRegression,
                metrics |-> NoMetrics, outliers |-> <<>>]

NoSurfaceArgs == [slopeRange |-> <<Zero, Zero>>,
                  interceptRange |-> <<Zero, Zero>>, resolution |-> 0]

NoSurface == [slopes |-> <<>>, intercepts |-> <<>>, costs |-> <<>>]

ToolsIdle ==
    /\ outliers = <<>>
    /\ reordered = NoReordered
    /\ surfaceArgs = NoSurfaceArgs
    /\ surface = NoSurface

NoEarlier == [call |-> <<>>, randoms |-> <<>>, points |-> <<>>, made |-> FALSE]

SampleIdle ==
    /\ sampleCall = <<>>
    /\ sampleType = ""
    /\ sampleN = 0
    /\ sampleI = 0
    /\ rng = [s |-> 0, d |-> 1]
    /\ randoms = <<>>
    /\ spc = "idle"
    /\ earlier = NoEarlier

\* What formatNumber has returned or thrown: nothing yet
NoText == [form |-> "none", negative |-> FALSE, scaled |-> 0, decimals |-> 0]

DisplayIdle ==
    /\ penaltyArgs = <<>>
    /\ cost = Zero
    /\ ppc = "idle"
    /\ formatArgs = <<>>
    /\ formatted = NoText

\* useState(new Set()), useState(null)
VizIdle ==
    /\ outlierIndices = {}
    /\ selectedPoint = <<>>
    /\ vizSteps = 0

NoRun == [historyLength |-> 0, converged |-> FALSE]

SimIdle ==
    /\ isPlaying = FALSE
    /\ currentEpoch = 0
    /\ speed = 0
    /\ animationRef = 0
    /\ timers = {}
    /\ gdResult = NoRun
    /\ divergesAt = 0
    /\ epochBase = 0
    /\ epochUpdates = <<>>
    /\ playingBase = FALSE
    /\ playingUpdates = <<>>
    /\ inputs = 0
    /\ lastInput = ""

AppIdle == SampleIdle /\ DisplayIdle /\ VizIdle /\ SimIdle

\* points.forEach(p => { ...; slopeGradient += error * p.x; ... })
RECURSIVE SlopeGradientSum(_, _, _, _)
SlopeGradientSum(pts, m, b, k) ==
    IF k = 0 THEN Zero
    ELSE LET p == pts[k]
             prediction == FAdd(FMul(m, p.x), b)
             error == FSub(prediction, p.y)
         IN  FAdd(SlopeGradientSum(pts, m, b, k - 1), FMul(error, p.x))

\* points.forEach(p => { ...; interceptGradient += error })
RECURSIVE InterceptGradientSum(_, _, _, _)
InterceptGradientSum(pts, m, b, k) ==
    IF k = 0 THEN Zero
    ELSE LET p == pts[k]
             prediction == FAdd(FMul(m, p.x), b)
             error == FSub(prediction, p.y)
         IN  FAdd(InterceptGradientSum(pts, m, b, k - 1), error)

\* (2 / n) * gradient sum
OneOverN(pts) == FDiv(FromInt(1), FromInt(Len(pts)))

TwoOverN(pts) == FDiv(FromInt(2), FromInt(Len(pts)))

\* history.length > 0 && isFinite(history[history.length - 1].loss)
ConvergedIfAnyEpoch(h) == Len(h) > 0

Converged(h) == Len(h) > 0 /\ isFinite(h[Len(h)].loss)

Init ==
    /\ points \in PointSeqs(MaxLenGD)
    /\ learningRate \in LearningRates
    /\ iterations \in 0..MaxIter
    /\ initialSlope \in InitialParams
    /\ initialIntercept \in InitialParams
    /\ slope = initialSlope
    /\ intercept = initialIntercept
    /\ i = 0
    /\ history = <<>>
    /\ pc = "loop"
    /\ result = NoResult
    /\ FitIdle
    /\ ToolsIdle
    /\ AppIdle

\* for (let i = 0; i < iterations; i++)
LoopConditionOffByOne == i <= iterations

LoopCondition == i < iterations

\* if (!isFinite(mse)) break;
DivergedNever(mse) == FALSE

Diverged(mse) == ~isFinite(mse)

\* One pass of the body of the loop
Epoch ==
    /\ pc = "loop"
    /\ LoopCondition
    /\ LET slopeGradient ==
               FMul(TwoOverN(points),
                    SlopeGradientSum(points, slope, intercept, Len(points)))
           interceptGradient ==
               FMul(TwoOverN(points),
                    InterceptGradientSum(points, slope, intercept, Len(points)))
           newSlope == FSub(slope, FMul(learningRate, slopeGradient))
           newIntercept == FSub(intercept, FMul(learningRate, interceptGradient))
           mse == calculateMSE(points, newSlope, newIntercept)
       IN  /\ slope' = newSlope
           /\ intercept' = newIntercept
           /\ history' = Append(history,
                                [epoch |-> i + 1,
                                 slope |-> newSlope,
                                 intercept |-> newIntercept,
                                 loss |-> mse,
                                 slopeGradient |-> slopeGradient,
                                 interceptGradient |-> interceptGradient])
           /\ IF Diverged(mse)
              THEN pc' = "return" /\ i' = i
              ELSE pc' = "loop" /\ i' = i + 1
    /\ UNCHANGED <<points, appVars, learningRate, iterations, initialSlope,
                   initialIntercept, result, fitVars, toolVars>>

\* The loop condition i < iterations fails
LoopExit ==
    /\ pc = "loop"
    /\ ~LoopCondition
    /\ pc' = "return"
    /\ UNCHANGED <<points, appVars, learningRate, iterations, initialSlope,
                   initialIntercept, slope, intercept, i, history, result,
                   fitVars, toolVars>>

\* return { finalSlope, finalIntercept, history, converged }
Return ==
    /\ pc = "return"
    /\ result' = [finalSlope |-> slope,
                  finalIntercept |-> intercept,
                  history |-> history,
                  converged |-> Converged(history)]
    /\ pc' = "done"
    /\ UNCHANGED <<points, appVars, learningRate, iterations, initialSlope,
                   initialIntercept, slope, intercept, i, history, fitVars,
                   toolVars>>

Next == Epoch \/ LoopExit \/ Return

Spec == Init /\ [][Next]_vars

\* ------------------------------------------------------------------------
\* The fit and the metrics, applied to a dataset
\* ------------------------------------------------------------------------
\* The dataset of the end-to-end scenario: (1,2), (2,4), (3,6), (4,8)
ExamplePoints ==
    [k \in 1..4 |-> [x |-> FromInt(k), y |-> FromInt(2 * k)]]

\* Three points on no line: (0,0), (1,2), (2,1)
ScatterPoints ==
    <<[x |-> Zero, y |-> Zero], [x |-> FromInt(1), y |-> FromInt(2)],
      [x |-> FromInt(2), y |-> FromInt(1)]>>

\* Three points with x = 0.1
SameXPoints ==
    <<[x |-> Lit(1, 10), y |-> Zero], [x |-> Lit(1, 10), y |-> Zero],
      [x |-> Lit(1, 10), y |-> FromInt(1)]>>

\* A value whose square is rounded to zero
Tiny == <<"fin", 1, -((Frac \div 2) + 1)>>

\* Two points whose y values differ by Tiny
TinyYPoints == <<[x |-> Zero, y |-> Zero], [x |-> FromInt(1), y |-> Tiny]>>

\* Three points with y = 0.1
SameYPoints ==
    [k \in 1..3 |-> [x |-> FromInt(k - 1), y |-> Lit(1, 10)]]

FitInputs ==
    PointSeqs(MaxLen)
        \cup {ExamplePoints, ScatterPoints, SameXPoints, TinyYPoints,
              SameYPoints}

CandidateSlopes ==
    {FromInt(-1), Zero, Lit(1, 2), FromInt(1), FromInt(2), Tiny}

CandidateIntercepts == {Zero, FromInt(1), FromInt(2)}

GDIdle ==
    /\ learningRate = Zero
    /\ iterations = 0
    /\ initialSlope = Zero
    /\ initialIntercept = Zero
    /\ slope = Zero
    /\ intercept = Zero
    /\ i = 0
    /\ history = <<>>
    /\ pc = "idle"
    /\ result = NoResult

\* calculateAllMetrics(points, slope, intercept)
calculateAllMetrics(pts, m, b) ==
    [mse |-> calculateMSE(pts, m, b),
     rmse |-> calculateRMSE(pts, m, b),
     mae |-> calculateMAE(pts, m, b),
     r2 |-> calculateR2(pts, m, b)]

InitFit ==
    /\ points \in FitInputs
    /\ GDIdle
    /\ regression = NoRegression
    /\ metrics = NoMetrics
    /\ candidate = NoCandidate
    /\ candidateMetrics = NoMetrics
    /\ fpc = "input"
    /\ ToolsIdle
    /\ AppIdle

\* regression = calculateLinearRegression(points);
\* metrics = calculateAllMetrics(points, regression.slope, regression.intercept)
Fit ==
    /\ fpc = "input"
    /\ regression' = calculateLinearRegression(points)
    /\ metrics' = calculateAllMetrics(points, regression'.slope,
                                      regression'.intercept)
    /\ fpc' = "fitted"
    /\ UNCHANGED <<points, appVars, gdVars, candidate, candidateMetrics, toolVars>>

\* The metrics at a (slope, intercept) pair that need not come from the fit
Evaluate(m, b) ==
    /\ fpc = "fitted"
    /\ candidate' = [slope |-> m, intercept |-> b]
    /\ candidateMetrics' = calculateAllMetrics(points, m, b)
    /\ fpc' = "evaluated"
    /\ UNCHANGED <<points, appVars, gdVars, regression, metrics, toolVars>>

NextFit ==
    \/ Fit
    \/ \E m \in CandidateSlopes, b \in CandidateIntercepts : Evaluate(m, b)

SpecFit == InitFit /\ [][NextFit]_vars

\* ------------------------------------------------------------------------
\* detectOutliers, applied to a dataset and a line
\* ------------------------------------------------------------------------
OutlierPoints == [x : {FromInt(0), FromInt(1)},
                  y : {FromInt(0), FromInt(2), FromInt(6)}]

OutlierInputs == UNION {[1..n -> OutlierPoints] : n \in 0..MaxLenOut}

OutlierLines == {[slope |-> Zero, intercept |-> Zero],
                 [slope |-> FromInt(1), intercept |-> Zero]}

InitOutliers ==
    /\ points \in OutlierInputs
    /\ GDIdle
    /\ regression = NoRegression
    /\ metrics = NoMetrics
    /\ candidate = NoCandidate
    /\ candidateMetrics = NoMetrics
    /\ fpc = "input"
    /\ ToolsIdle
    /\ AppIdle

\* outliers = detectOutliers(points, slope, intercept)
DetectOutliers(line) ==
    /\ fpc = "input"
    /\ candidate' = line
    /\ outliers' = detectOutliers(points, line.slope, line.intercept)
    /\ fpc' = "detected"
    /\ UNCHANGED <<points, appVars, gdVars, regression, metrics, candidateMetrics,
                   reordered, surfaceArgs, surface>>

NextOutliers == \E line \in OutlierLines : DetectOutliers(line)

SpecOutliers == InitOutliers /\ [][NextOutliers]_vars

\* ------------------------------------------------------------------------
\* The fit, the metrics and detectOutliers, applied to the same points in
\* two orders
\* ------------------------------------------------------------------------
\* (0.1, 1), (0.2, 2), (0.3, 4)
TenthsPoints ==
    <<[x |-> Lit(1, 10), y |-> FromInt(1)], [x |-> Lit(2, 10), y |-> FromInt(2)],
      [x |-> Lit(3, 10), y |-> FromInt(4)]>>

\* Five points, the last one far from the others
FarPoints ==
    <<[x |-> Zero, y |-> Zero], [x |-> FromInt(1), y |-> Zero],
      [x |-> Zero, y |-> FromInt(2)], [x |-> FromInt(1), y |-> FromInt(2)],
      [x |-> FromInt(1), y |-> FromInt(6)]>>

\* Three points on no line whose sums are multiples of three
BentPoints ==
    <<[x |-> Zero, y |-> FromInt(1)], [x |-> FromInt(1), y |-> FromInt(1)],
      [x |-> FromInt(2), y |-> FromInt(4)]>>

OrderInputs ==
    PointSeqs(MaxLenGD)
        \cup {ScatterPoints, TenthsPoints, FarPoints, BentPoints}

\* The results of the functions on the points pts taken in the order from
\* (from[k] is the place in points of the k-th point of pts)
Measured(pts, from, line) ==
    [points |-> pts, from |-> from,
     regression |-> calculateLinearRegression(pts),
     metrics |-> calculateAllMetrics(pts, line.slope, line.intercept),
     outliers |-> detectOutliers(pts, line.slope, line.intercept)]

\* The sequence q with its elements k and k + 1 exchanged
SwapAt(q, k) ==
    [j \in 1..Len(q) |->
        IF j = k THEN q[k + 1] ELSE IF j = k + 1 THEN q[k] ELSE q[j]]

InitOrder ==
    /\ points \in OrderInputs
    /\ GDIdle
    /\ regression = NoRegression
    /\ metrics = NoMetrics
    /\ candidate = NoCandidate
    /\ candidateMetrics = NoMetrics
    /\ fpc = "input"
    /\ ToolsIdle
    /\ AppIdle

\* The functions are called on the points in their given order
Measure(line) ==
    /\ fpc = "input"
    /\ \E r \in {Measured(points, [k \in 1..Len(points) |-> k], line)} :
           /\ regression' = r.regression
           /\ candidate' = line
           /\ candidateMetrics' = r.metrics
           /\ outliers' = r.outliers
           /\ reordered' = r
    /\ fpc' = "measured"
    /\ UNCHANGED <<points, appVars, gdVars, metrics, surfaceArgs, surface>>

\* ... and on the same points with two neighbours exchanged
MeasureSwapped(k) ==
    /\ fpc = "measured"
    /\ k \in 1..(Len(reordered.points) - 1)
    /\ \E q \in {SwapAt(reordered.points, k)} :
           reordered' = Measured(q, SwapAt(reordered.from, k), candidate)
    /\ UNCHANGED <<points, appVars, gdVars, fitVars, outliers, surfaceArgs, surface>>

NextOrder ==
    \/ \E line \in OutlierLines : Measure(line)
    \/ \E k \in 1..MaxLenOut : MeasureSwapped(k)

SpecOrder == InitOrder /\ [][NextOrder]_vars

\* ------------------------------------------------------------------------
\* generateCostSurface, applied to a dataset, two ranges and a resolution
\* ------------------------------------------------------------------------
\* The default ranges [-2, 2] and [-5, 5], and two others
SlopeRanges == {<<FromInt(-2), FromInt(2)>>, <<Zero, FromInt(1)>>,
                <<FromInt(1), FromInt(1)>>}

InterceptRanges == {<<FromInt(-5), FromInt(5)>>, <<Zero, FromInt(1)>>}

SurfaceInputs == PointSeqs(MaxLenGD)

InitSurface ==
    /\ points \in SurfaceInputs
    /\ GDIdle
    /\ regression = NoRegression
    /\ metrics = NoMetrics
    /\ candidate = NoCandidate
    /\ candidateMetrics = NoMetrics
    /\ fpc = "input"
    /\ ToolsIdle
    /\ AppIdle

\* surface = generateCostSurface(points, slopeRange, interceptRange, resolution)
GenerateCostSurface(args) ==
    /\ fpc = "input"
    /\ surfaceArgs' = args
    /\ surface' = generateCostSurface(points, args)
    /\ fpc' = "surface"
    /\ UNCHANGED <<points, appVars, gdVars, regression, metrics, candidate,
                   candidateMetrics, outliers, reordered>>

NextSurface ==
    \E sr \in SlopeRanges, ir \in InterceptRanges, r \in 0..MaxResolution :
        GenerateCostSurface([slopeRange |-> sr, interceptRange |-> ir,
                             resolution |-> r])

SpecSurface == InitSurface /\ [][NextSurface]_vars

\* ------------------------------------------------------------------------
\* generateSampleDataset
\* ------------------------------------------------------------------------
\* The cases of the switch
Kinds == {"linear", "noisy", "outliers", "random"}

\* (type = 'linear', n = 20)
DefaultType == "linear"

DefaultN == 20

TypeOf(args) == IF Len(args) >= 1 THEN args[1] ELSE DefaultType

NOf(args) == IF Len(args) >= 2 THEN args[2] ELSE DefaultN

\* Math.random(): a number in [0, 1), the next one of the generator behind it.
\* The generators considered give the multiples of 2^-Prec in [0, 1), from
\* any first number s / 2^Prec on, d / 2^Prec apart (modulo 1).
RandomRange == 2^Prec

RandomStrides == {1, 15}

RngStates == [s : 0..(RandomRange - 1), d : RandomStrides]

MathRandom(g) == Lit(g.s, RandomRange)

NextRng(g) == [g EXCEPT !.s = (g.s + g.d) % RandomRange]

\* The state of the generator k numbers earlier
RngBefore(g, k) ==
    [g EXCEPT !.s = (g.s + k * (RandomRange - g.d)) % RandomRange]

\* const x = (i / n) * 10
SampleX(k, n) == FMul(FDiv(FromInt(k), FromInt(n)), FromInt(10))

\* (Math.random() - 0.5) * width
Noise(r, width) == FMul(FSub(r, Lit(1, 2)), FromInt(width))

\* 2 * x + 3 + (Math.random() - 0.5) * 2
LinearY(x, r) ==
    FAdd(FAdd(FMul(FromInt(2), x), FromInt(3)), Noise(r, 2))

\* 1.5 * x + 5 + (Math.random() - 0.5) * 8
NoisyYOnLinearTrend(x, r) ==
    FAdd(FAdd(FMul(FromInt(2), x), FromInt(3)), Noise(r, 8))

NoisyY(x, r) ==
    FAdd(FAdd(FMul(Lit(3, 2), x), FromInt(5)), Noise(r, 8))

\* i === 5 || i === 15
OutlierIndexEveryFifth(k) == k % 5 = 0 /\ k > 0

OutlierIndex(k) == k = 5 \/ k = 15

\* (Math.random() > 0.5 ? 1 : -1) * 15
OutlierShift(r) == IF FLt(Lit(1, 2), r) THEN FromInt(15) ELSE FromInt(-15)

\* How many numbers the body of the loop takes from Math.random
DrawsOf(type, k) ==
    IF type = "random" \/ (type = "outliers" /\ OutlierIndex(k)) THEN 2 ELSE 1

\* The point the body of the loop pushes, r1 and r2 being the numbers
\* Math.random returns to it
SamplePoint(type, k, n, r1, r2) ==
    CASE type = "linear" ->
            LET x == SampleX(k, n) IN [x |-> x, y |-> LinearY(x, r1)]
      [] type = "noisy" ->
            LET x == SampleX(k, n) IN [x |-> x, y |-> NoisyY(x, r1)]
      [] type = "outliers" ->
            LET x == SampleX(k, n)
                y == LinearY(x, r1)
            IN  [x |-> x,
                 y |-> IF OutlierIndex(k) THEN FAdd(y, OutlierShift(r2))
                       ELSE y]
      [] type = "random" ->
            [x |-> FMul(r1, FromInt(10)), y |-> FMul(r2, FromInt(20))]

\* const points = []
KeptPoints(old) == old

FreshPoints(old) == <<>>

\* return generateSampleDataset('linear', n)
FallbackArgsDefaultN(type, n) == <<"linear">>

FallbackArgs(type, n) == <<"linear", n>>

\* The calls considered: generateSampleDataset(), (type) and (type, n)
SampleTypes == Kinds \cup {"quadratic"}

SampleCalls ==
    {<<>>} \cup {<<t>> : t \in SampleTypes}
           \cup {<<t, n>> : t \in SampleTypes, n \in 0..MaxSampleN}

InitSample ==
    /\ points = <<>>
    /\ GDIdle
    /\ FitIdle
    /\ ToolsIdle
    /\ DisplayIdle
    /\ sampleCall \in SampleCalls
    /\ sampleType = ""
    /\ sampleN = 0
    /\ sampleI = 0
    /\ rng \in RngStates
    /\ randoms = <<>>
    /\ spc = "call"
    /\ earlier = NoEarlier
    /\ VizIdle
    /\ SimIdle

\* (type = 'linear', n = 20) => { const points = []
SampleEnter ==
    /\ spc = "call"
    /\ sampleType' = TypeOf(sampleCall)
    /\ sampleN' = NOf(sampleCall)
    /\ sampleI' = 0
    /\ points' = FreshPoints(points)
    /\ randoms' = <<>>
    /\ spc' = "switch"
    /\ UNCHANGED <<sampleCall, rng, earlier, notSampleVars>>

\* switch (type) { case 'linear': ... case 'random': for (let i = 0; ...
SampleCase ==
    /\ spc = "switch"
    /\ sampleType \in Kinds
    /\ sampleI' = 0
    /\ spc' = "loop"
    /\ UNCHANGED <<points, sampleCall, sampleType, sampleN, rng, randoms,
                   earlier, notSampleVars>>

\* default: return generateSampleDataset('linear', n), whose result is the
\* result of this call
SampleDefault ==
    /\ spc = "switch"
    /\ sampleType \notin Kinds
    /\ \E args \in {FallbackArgs(sampleType, sampleN)} :
          /\ sampleType' = TypeOf(args)
          /\ sampleN' = NOf(args)
    /\ sampleI' = 0
    /\ points' = FreshPoints(points)
    /\ spc' = "switch"
    /\ UNCHANGED <<sampleCall, rng, randoms, earlier, notSampleVars>>

\* i < n: one run of the body of the loop, and i++
SampleStep ==
    /\ spc = "loop"
    /\ sampleI < sampleN
    /\ \E r1 \in {MathRandom(rng)}, r2 \in {MathRandom(NextRng(rng))},
          draws \in {DrawsOf(sampleType, sampleI)} :
          /\ points' = Append(points, SamplePoint(sampleType, sampleI,
                                                  sampleN, r1, r2))
          /\ randoms' = randoms \o (IF draws = 2 THEN <<r1, r2>> ELSE <<r1>>)
          /\ rng' = IF draws = 2 THEN NextRng(NextRng(rng)) ELSE NextRng(rng)
    /\ sampleI' = sampleI + 1
    /\ UNCHANGED <<sampleCall, sampleType, sampleN, spc, earlier, notSampleVars>>

\* !(i < n): break; return points
SampleReturn ==
    /\ spc = "loop"
    /\ ~(sampleI < sampleN)
    /\ spc' = "return"
    /\ UNCHANGED <<points, sampleCall, sampleType, sampleN, sampleI, rng,
                   randoms, earlier, notSampleVars>>

\* The same call once more. The caller keeps the array the first call
\* returned; the generator goes on from its state, or is in the state that
\* repeats the numbers it gave to the first call.
SampleAgain ==
    /\ spc = "return"
    /\ ~earlier.made
    /\ earlier' = [call |-> sampleCall, randoms |-> randoms,
                   points |-> points, made |-> TRUE]
    /\ rng' \in {rng, RngBefore(rng, Len(randoms))}
    /\ spc' = "call"
    /\ UNCHANGED <<points, sampleCall, sampleType, sampleN, sampleI, randoms,
                   notSampleVars>>

NextSample ==
    \/ SampleEnter
    \/ SampleCase
    \/ SampleDefault
    \/ SampleStep
    \/ SampleReturn
    \/ SampleAgain

SpecSample == InitSample /\ [][NextSample]_vars

\* ------------------------------------------------------------------------
\* ridgeRegularization and lassoRegularization
\* ------------------------------------------------------------------------
\* (baseCost, slope, lambda = 0.1)
DefaultLambda == Lit(1, 10)

LambdaOf(args) == IF Len(args) >= 3 THEN args[3] ELSE DefaultLambda

\* baseCost + lambda * (slope ** 2)
ridgeRegularization(args) ==
    FAdd(args[1], FMul(LambdaOf(args), FSquare(args[2])))

\* baseCost + lambda * Math.abs(slope)
lassoRegularizationWithoutAbs(args) ==
    FAdd(args[1], FMul(LambdaOf(args), args[2]))

lassoRegularization(args) ==
    FAdd(args[1], FMul(LambdaOf(args), FAbs(args[2])))

\* ------------------------------------------------------------------------
\* formatNumber
\* ------------------------------------------------------------------------
\* The values of JavaScript handed to formatNumber: numbers, undefined, null,
\* strings and booleans
Num(x) == [type |-> "number", num |-> x, str |-> ""]

Undefined == [type |-> "undefined", num |-> NaN, str |-> ""]

Null == [type |-> "null", num |-> NaN, str |-> ""]

Str(chars) == [type |-> "string", num |-> NaN, str |-> chars]

Bool(flag) ==
    [type |-> "boolean", num |-> NaN, str |-> IF flag THEN "true" ELSE "false"]

\* typeof value
Typeof(value) == IF value.type = "null" THEN "object" ELSE value.type

\* ToNumber(value), of the values above
ToNumber(value) ==
    CASE value.type = "number" -> value.num
      [] value.type = "undefined" -> NaN
      [] value.type = "null" -> Zero
      [] value.type = "boolean" ->
            IF value.str = "true" THEN FromInt(1) ELSE Zero
      [] value.type = "string" ->
            IF value.str = "" THEN Zero
            ELSE IF value.str = "5" THEN FromInt(5)
            ELSE NaN

\* The global isFinite(value), which converts its argument to a number
GlobalIsFinite(value) == isFinite(ToNumber(value))

\* What a call returns or throws: the placeholder, a number written with a
\* fixed count of decimals (the digits of scaled, a decimal point before the
\* last decimals of them, a minus sign if negative), the exponent notation of a
\* number, or an exception
Placeholder ==
    [form |-> "placeholder", negative |-> FALSE, scaled |-> 0, decimals |-> 0]

Thrown(error) ==
    [form |-> error, negative |-> FALSE, scaled |-> 0, decimals |-> 0]

\* x >= 10^21, for x = m * 2^e > 0: with top the count of binary digits of
\* m * 2^(e - 21), the number is below 5^21 when top <= 48, above when
\* top >= 50, and at top = 49 it is m * 2^(24 - BitLen(m)) * 2^25, to be
\* compared with 5^21 = 14210854.7... * 2^25
AtLeast1e21(m, e) ==
    LET top == e - 21 + BitLen(m)
    IN  IF top <= 48 THEN FALSE
        ELSE IF top >= 50 THEN TRUE
        ELSE m * 2^(24 - BitLen(m)) >= 14210855

\* The integer n for which n / 10^f - x is closest to zero, the larger one
\* of two, for x = m * 2^e > 0 below 2^(MaxExp + 1)
ScaledDigits(m, e, f) ==
    IF e >= 0 THEN m * 2^e * 10^f
    ELSE IF -e > 29 THEN 0
    ELSE (2 * m * 10^f + 2^(-e)) \div (2 * 2^(-e))

\* Number.prototype.toFixed.call(value, fractionDigits)
ToFixed(value, f) ==
    IF Typeof(value) # "number" THEN Thrown("TypeError")
    ELSE IF f < 0 \/ f > 100 THEN Thrown("RangeError")
    ELSE LET x == value.num
         IN  IF isNaN(x)
             THEN [form |-> "NaN", negative |-> FALSE, scaled |-> 0,
                   decimals |-> 0]
             ELSE IF ~isFinite(x)
             THEN [form |-> "Infinity", negative |-> x[2] < 0, scaled |-> 0,
                   decimals |-> 0]
             ELSE IF x[2] # 0 /\ AtLeast1e21(Abs(x[2]), x[3])
             THEN [form |-> "exponent", negative |-> x[2] < 0, scaled |-> 0,
                   decimals |-> 0]
             ELSE [form |-> "fixed", negative |-> x[2] < 0,
                   scaled |-> IF x[2] = 0 THEN 0
                              ELSE ScaledDigits(Abs(x[2]), x[3], f),
                   decimals |-> f]

\* (value, decimals = 4)
DefaultDecimals == 4

DecimalsOf(args) == IF Len(args) >= 2 THEN args[2] ELSE DefaultDecimals

\* if (!isFinite(value)) return '—'
formatNumberWithoutTypeof(args) ==
    IF ~GlobalIsFinite(args[1]) THEN Placeholder
    ELSE ToFixed(args[1], DecimalsOf(args))

\* if (typeof value !== 'number' || !isFinite(value)) return '—';
\* return value.toFixed(decimals)
formatNumber(args) ==
    IF Typeof(args[1]) # "number" \/ ~GlobalIsFinite(args[1]) THEN Placeholder
    ELSE ToFixed(args[1], DecimalsOf(args))

\* ------------------------------------------------------------------------
\* A regularized cost, computed and displayed
\* ------------------------------------------------------------------------
BaseCosts == {Zero, FromInt(5), Lit(1, 4), FromInt(-1)}

Weights == {FromInt(-2), Lit(-1, 2), Zero, Lit(1, 2), FromInt(2)}

Lambdas == {Lit(1, 10), Lit(-1, 10), Zero, FromInt(1), FromInt(-2)}

PenaltyCalls ==
    {<<c, w>> : c \in BaseCosts, w \in Weights}
        \cup {<<c, w, l>> : c \in BaseCosts, w \in Weights, l \in Lambdas}

\* 2^70, a number above 10^21: the arithmetic above does not reach it, a
\* caller of formatNumber can pass it
Huge == <<"fin", 1, 70>>

FormatValues ==
    {Num(x) : x \in {NaN, PosInf, NegInf, Zero, Lit(1, 32), Lit(-1, 32),
                     Lit(1, 32768), Lit(-1, 32768), FromInt(-2), Huge,
                     FNeg(Huge)}}
        \cup {Undefined, Null, Str(""), Str("5"), Str("abc"), Bool(TRUE)}

InitDisplay ==
    /\ points = <<>>
    /\ GDIdle
    /\ FitIdle
    /\ ToolsIdle
    /\ SampleIdle
    /\ penaltyArgs \in PenaltyCalls
    /\ cost = Zero
    /\ ppc = "call"
    /\ formatArgs = <<>>
    /\ formatted = NoText
    /\ VizIdle
    /\ SimIdle

\* cost = ridgeRegularization(baseCost, slope, lambda)
Ridge ==
    /\ ppc = "call"
    /\ cost' = ridgeRegularization(penaltyArgs)
    /\ ppc' = "ridge"
    /\ UNCHANGED <<penaltyArgs, formatArgs, formatted, notDisplayVars>>

\* cost = lassoRegularization(baseCost, slope, lambda)
Lasso ==
    /\ ppc = "call"
    /\ cost' = lassoRegularization(penaltyArgs)
    /\ ppc' = "lasso"
    /\ UNCHANGED <<penaltyArgs, formatArgs, formatted, notDisplayVars>>

\* formatted = formatNumber(value) or formatNumber(value, decimals)
FormatNumber(args) ==
    /\ formatArgs = <<>>
    /\ formatArgs' = args
    /\ formatted' = formatNumber(args)
    /\ UNCHANGED <<penaltyArgs, cost, ppc, notDisplayVars>>

NextDisplay ==
    \/ Ridge
    \/ Lasso
    \/ \E value \in FormatValues \cup {Num(cost)} :
          \E args \in {<<value>>, <<value, 2>>} : FormatNumber(args)

SpecDisplay == InitDisplay /\ [][NextDisplay]_vars

\* ------------------------------------------------------------------------
\* RegressionVisualizer: points, outlierIndices and selectedPoint under its
\* handlers
\* ------------------------------------------------------------------------
\* generateSampleDataset(type, n), with the generator in state g
DrawsBefore(type, k) ==
    IF type = "random" THEN 2 * k
    ELSE IF type = "outliers"
         THEN k + Cardinality({j \in 0..(k - 1) : OutlierIndex(j)})
    ELSE k

RngAfter(g, count) == [g EXCEPT !.s = (g.s + count * g.d) % RandomRange]

generateSampleDataset(type, n, g) ==
    LET kind == IF type \in Kinds THEN type ELSE "linear"
    IN  [k \in 1..n |->
            LET at == RngAfter(g, DrawsBefore(kind, k - 1))
            IN  SamplePoint(kind, k - 1, n, MathRandom(at),
                            MathRandom(NextRng(at)))]

\* prev.filter((_, i) => i !== selectedPoint)
RemoveAt(prev, sel) ==
    [k \in 1..(Len(prev) - (IF sel < Len(prev) THEN 1 ELSE 0)) |->
        IF k - 1 < sel THEN prev[k] ELSE prev[k + 1]]

\* prev.forEach(i => { if (i < selectedPoint) newSet.add(i);
\*                     else if (i > selectedPoint) newSet.add(i - 1); })
UnshiftedIndices(prev, sel) == prev \ {sel}

ShiftedIndices(prev, sel) ==
    {k \in prev : k < sel} \cup {k - 1 : k \in {j \in prev : j > sel}}

\* newSet.has(selectedPoint) ? newSet.delete(...) : newSet.add(...)
Toggled(prev, sel) == IF sel \in prev THEN prev \ {sel} ELSE prev \cup {sel}

\* The data of the two traces of markers: the points that are not marked
\* and the points that are
TraceLength(trace) ==
    Cardinality({k \in 0..(Len(points) - 1) :
                    (k \in outlierIndices) = (trace = "outliers")})

\* The places a click adds a point at, and the buttons of sample data
ClickCoords == {[x |-> FromInt(1), y |-> FromInt(1)],
                [x |-> FromInt(2), y |-> Zero]}

SampleButtons == {"linear", "noisy", "outliers"}

SampleButtonN == 15

InitViz ==
    /\ points = <<>>
    /\ GDIdle
    /\ FitIdle
    /\ ToolsIdle
    /\ DisplayIdle
    /\ sampleCall = <<>>
    /\ sampleType = ""
    /\ sampleN = 0
    /\ sampleI = 0
    /\ rng \in {[s |-> 0, d |-> 1]}
    /\ randoms = <<>>
    /\ spc = "idle"
    /\ earlier = NoEarlier
    /\ VizIdle
    /\ SimIdle

\* handlePlotClick, on a marker: setSelectedPoint(event.points[0].pointIndex)
SelectPoint(pointIndex) ==
    /\ vizSteps < MaxVizSteps
    /\ selectedPoint' = <<pointIndex>>
    /\ vizSteps' = vizSteps + 1
    /\ UNCHANGED <<points, outlierIndices, rng, notVizVars>>

\* handlePlotClick, off the markers: setPoints(prev => [...prev, { x, y }]);
\* setSelectedPoint(null)
AddPoint(p) ==
    /\ vizSteps < MaxVizSteps
    /\ Len(points) < MaxVizPoints
    /\ points' = Append(points, p)
    /\ selectedPoint' = <<>>
    /\ vizSteps' = vizSteps + 1
    /\ UNCHANGED <<outlierIndices, rng, notVizVars>>

\* removeSelectedPoint
RemoveSelectedPoint ==
    /\ vizSteps < MaxVizSteps
    /\ selectedPoint # <<>>
    /\ points' = RemoveAt(points, selectedPoint[1])
    /\ outlierIndices' = ShiftedIndices(outlierIndices, selectedPoint[1])
    /\ selectedPoint' = <<>>
    /\ vizSteps' = vizSteps + 1
    /\ UNCHANGED <<rng, notVizVars>>

\* toggleOutlier
ToggleOutlier ==
    /\ vizSteps < MaxVizSteps
    /\ selectedPoint # <<>>
    /\ outlierIndices' = Toggled(outlierIndices, selectedPoint[1])
    /\ vizSteps' = vizSteps + 1
    /\ UNCHANGED <<points, selectedPoint, rng, notVizVars>>

\* resetPoints
ResetPoints ==
    /\ vizSteps < MaxVizSteps
    /\ points' = <<>>
    /\ outlierIndices' = {}
    /\ selectedPoint' = <<>>
    /\ vizSteps' = vizSteps + 1
    /\ UNCHANGED <<rng, notVizVars>>

\* generateSample(type)
GenerateSample(type) ==
    /\ vizSteps < MaxVizSteps
    /\ \E newPoints \in {generateSampleDataset(type, SampleButtonN, rng)} :
          points' = newPoints
    /\ rng' = RngAfter(rng, DrawsBefore(type, SampleButtonN))
    /\ outlierIndices' = {}
    /\ selectedPoint' = <<>>
    /\ vizSteps' = vizSteps + 1
    /\ UNCHANGED notVizVars

NextViz ==
    \/ \E trace \in {"points", "outliers"} :
          \E pointIndex \in 0..(TraceLength(trace) - 1) :
              SelectPoint(pointIndex)
    \/ \E p \in ClickCoords : AddPoint(p)
    \/ RemoveSelectedPoint
    \/ ToggleOutlier
    \/ ResetPoints
    \/ \E type \in SampleButtons : GenerateSample(type)

SpecViz == InitViz /\ [][NextViz]_vars

\* ------------------------------------------------------------------------
\* GradientDescentSimulator: isPlaying and currentEpoch under its handlers,
\* its animation effect and the timeouts the effect sets
\* ------------------------------------------------------------------------
\* The length of the history gradientDescent returns, and converged: an
\* epoch is pushed before the loss is tested, and the loop ends with the
\* first loss that is not finite. The epoch at which that happens depends on
\* the points and the learning rate through the arithmetic of the doubles;
\* here it is any epoch up to MaxDivergeAt, or none, chosen again whenever
\* the points or the learning rate change.
DivergenceChoices == 0..MaxDivergeAt

Halts(iters, div) == div > 0 /\ div <= iters

gradientDescentRun(iters, div) ==
    [historyLength |-> IF Halts(iters, div) THEN div ELSE iters,
     converged |-> iters > 0 /\ ~Halts(iters, div)]

\* An update of a state hook: setX(prev => prev + 1) or setX(value), made
\* in the lane "sync" (in a handler of a click or of a change of an input),
\* or in the lane "default" (in a timeout or in an effect). React renders
\* the updates of the lane "sync" before a handler's event ends, and the
\* rest in a task of its scheduler. An update that a render leaves out
\* stays in the queue with all that follow it, and the later render
\* applies them in the order they were made.
Inc(lane) == [lane |-> lane, kind |-> "inc", value |-> 0]

SetEpoch(lane, epoch) == [lane |-> lane, kind |-> "set", value |-> epoch]

SetPlaying(lane, flag) == [lane |-> lane, kind |-> "set", value |-> flag]

Apply(update, prev) ==
    IF update.kind = "inc" THEN prev + 1 ELSE update.value

Rendered(update, all) == all \/ update.lane # "default"

RECURSIVE StateAfter(_, _, _, _)
StateAfter(base, updates, all, k) ==
    IF k = 0 THEN base
    ELSE LET before == StateAfter(base, updates, all, k - 1)
         IN  IF Rendered(updates[k], all) THEN Apply(updates[k], before)
             ELSE before

FirstSkipped(updates, all) ==
    LET skipped == {k \in 1..Len(updates) : ~Rendered(updates[k], all)}
    IN  IF skipped = {} THEN Len(updates) + 1
        ELSE CHOOSE k \in skipped : \A j \in skipped : k <= j

BaseAfter(base, updates, all) ==
    StateAfter(base, updates, TRUE, FirstSkipped(updates, all) - 1)

QueueAfter(updates, all) ==
    LET first == FirstSkipped(updates, all)
    IN  [k \in 1..(Len(updates) - first + 1) |->
            LET update == updates[first + k - 1]
            IN  IF Rendered(update, all) THEN [update EXCEPT !.lane = "none"]
                ELSE update]

RenderPending ==
    \/ \E k \in 1..Len(epochUpdates) : epochUpdates[k].lane = "default"
    \/ \E k \in 1..Len(playingUpdates) : playingUpdates[k].lane = "default"

\* The animation effect: if (isPlaying && currentEpoch < history.length)
\* sets a timeout, else if (currentEpoch >= history.length) calls
\* setIsPlaying(false)
ArmsTimer(playing, epoch, length) == playing /\ epoch < length

StopsPlayingPastTheEnd(playing, epoch, length) ==
    ~ArmsTimer(playing, epoch, length) /\ epoch > length

StopsPlaying(playing, epoch, length) ==
    ~ArmsTimer(playing, epoch, length) /\ epoch >= length

\* handlePlay: if (currentEpoch >= gdResult.history.length)
PlayRestarts(epoch, length) == epoch >= length

\* handleStep: if (currentEpoch < gdResult.history.length), and the
\* button's disabled={currentEpoch >= gdResult.history.length}
StepAllowed(epoch, length) == epoch < length

TimerIds == 1..2

\* The sliders. The learning rate starts at 0.01 and the speed at 100, and
\* the model moves each to one more of its positions. The iterations have
\* the positions 10, 20, .. 500 and start at 100; currentEpoch counts up
\* to them one by one, and the model has the positions 1..MaxSimIterations
\* instead and starts one below the last
LearningRateChoices == {Lit(1, 100), Lit(1, 2)}

IterationChoices == 1..MaxSimIterations

DefaultIterations == MaxSimIterations - 1

SpeedChoices == {100, 10}

DefaultSpeed == 100

SimulatorN == 20

\* A render of the component with the state lr, iters, pts, spd (and div
\* for what gradient descent does on it) and the queued updates eu and pu
\* of currentEpoch and isPlaying: all of them, or those of the lane "sync".
\* The commit is followed by the animation effect if one of its
\* dependencies changed: first the cleanup of its last run, then the effect
Render(all, lr, iters, pts, spd, div, eu, pu) ==
    LET epoch == StateAfter(epochBase, eu, all, Len(eu))
        playing == StateAfter(playingBase, pu, all, Len(pu))
        memo == IF <<pts, lr, iters>> # <<points, learningRate, iterations>>
                THEN gradientDescentRun(iters, div)
                ELSE gdResult
        length == memo.historyLength
        effect == <<playing, epoch, length, spd>>
                      # <<isPlaying, currentEpoch, gdResult.historyLength,
                          speed>>
        left == IF effect /\ animationRef # 0
                THEN timers \ {animationRef} ELSE timers
        arms == effect /\ ArmsTimer(playing, epoch, length)
        stops == effect /\ StopsPlaying(playing, epoch, length)
        id == CHOOSE t \in TimerIds : t \notin left /\ t # animationRef
        epochQueue == QueueAfter(eu, all)
        playingQueue == QueueAfter(pu, all)
        bailsOut == ~playing /\ epochQueue = <<>> /\ playingQueue = <<>>
    IN  /\ points' = pts
        /\ learningRate' = lr
        /\ iterations' = iters
        /\ speed' = spd
        /\ divergesAt' = div
        /\ gdResult' = memo
        /\ currentEpoch' = epoch
        /\ isPlaying' = playing
        /\ epochBase' = BaseAfter(epochBase, eu, all)
        /\ epochUpdates' = epochQueue
        /\ playingBase' = BaseAfter(playingBase, pu, all)
        /\ playingUpdates' =
               IF stops /\ ~bailsOut
               THEN Append(playingQueue, SetPlaying("default", FALSE))
               ELSE playingQueue
        /\ timers' = IF arms THEN left \cup {id} ELSE left
        /\ animationRef' = IF arms THEN id ELSE animationRef

\* What a handler's event does once the handler has returned
Flush(input, lr, iters, pts, spd, div, eu, pu) ==
    /\ inputs < MaxSimInputs
    /\ inputs' = inputs + 1
    /\ lastInput' = input
    /\ Render(FALSE, lr, iters, pts, spd, div, eu, pu)

\* The component after its first render and the first run of its effects
InitSim ==
    /\ \E g \in {[s |-> 0, d |-> 1]} :
          /\ points = generateSampleDataset("linear", SimulatorN, g)
          /\ rng = RngAfter(g, SimulatorN)
    /\ learningRate = Lit(1, 100)
    /\ iterations = DefaultIterations
    /\ initialSlope = Zero
    /\ initialIntercept = Zero
    /\ slope = Zero
    /\ intercept = Zero
    /\ i = 0
    /\ history = <<>>
    /\ pc = "idle"
    /\ result = NoResult
    /\ FitIdle
    /\ ToolsIdle
    /\ DisplayIdle
    /\ VizIdle
    /\ sampleCall = <<>>
    /\ sampleType = ""
    /\ sampleN = 0
    /\ sampleI = 0
    /\ randoms = <<>>
    /\ spc = "idle"
    /\ earlier = NoEarlier
    /\ isPlaying = FALSE
    /\ currentEpoch = 0
    /\ speed = DefaultSpeed
    /\ animationRef = 0
    /\ timers = {}
    /\ divergesAt \in DivergenceChoices
    /\ gdResult = gradientDescentRun(iterations, divergesAt)
    /\ epochBase = 0
    /\ epochUpdates = <<>>
    /\ playingBase = FALSE
    /\ playingUpdates = <<>>
    /\ inputs = 0
    /\ lastInput = ""

\* handlePlay, of the button shown while isPlaying is false
HandlePlay ==
    /\ ~isPlaying
    /\ Flush("play", learningRate, iterations, points, speed, divergesAt,
             IF PlayRestarts(currentEpoch, gdResult.historyLength)
             THEN Append(epochUpdates, SetEpoch("sync", 0))
             ELSE epochUpdates,
             Append(playingUpdates, SetPlaying("sync", TRUE)))
    /\ UNCHANGED <<rng, notSimVars>>

\* handlePause, of the button shown while isPlaying is true
HandlePause ==
    /\ isPlaying
    /\ Flush("pause", learningRate, iterations, points, speed, divergesAt,
             epochUpdates,
             Append(playingUpdates, SetPlaying("sync", FALSE)))
    /\ UNCHANGED <<rng, notSimVars>>

\* handleStep
HandleStep ==
    /\ StepAllowed(currentEpoch, gdResult.historyLength)
    /\ Flush("step", learningRate, iterations, points, speed, divergesAt,
             Append(epochUpdates, Inc("sync")), playingUpdates)
    /\ UNCHANGED <<rng, notSimVars>>

\* handleReset
HandleReset ==
    /\ Flush("reset", learningRate, iterations, points, speed, divergesAt,
             Append(epochUpdates, SetEpoch("sync", 0)),
             Append(playingUpdates, SetPlaying("sync", FALSE)))
    /\ UNCHANGED <<rng, notSimVars>>

\* handleSkipToEnd
HandleSkipToEnd ==
    /\ Flush("skip", learningRate, iterations, points, speed, divergesAt,
             Append(epochUpdates,
                    SetEpoch("sync", gdResult.historyLength)),
             Append(playingUpdates, SetPlaying("sync", FALSE)))
    /\ UNCHANGED <<rng, notSimVars>>

\* onChange of the learning rate: setLearningRate(...); handleReset()
ChangeLearningRate(lr) ==
    /\ lr # learningRate
    /\ \E div \in DivergenceChoices :
          Flush("rate", lr, iterations, points, speed, div,
                Append(epochUpdates, SetEpoch("sync", 0)),
                Append(playingUpdates, SetPlaying("sync", FALSE)))
    /\ UNCHANGED <<rng, notSimVars>>

\* onChange of the iterations: setIterations(...); handleReset()
ChangeIterations(iters) ==
    /\ iters # iterations
    /\ Flush("iterations", learningRate, iters, points, speed, divergesAt,
             Append(epochUpdates, SetEpoch("sync", 0)),
             Append(playingUpdates, SetPlaying("sync", FALSE)))
    /\ UNCHANGED <<rng, notSimVars>>

\* onChange of the speed: setSpeed(...)
ChangeSpeed(spd) ==
    /\ spd # speed
    /\ Flush("speed", learningRate, iterations, points, spd, divergesAt,
             epochUpdates, playingUpdates)
    /\ UNCHANGED <<rng, notSimVars>>

\* regenerateData
RegenerateData ==
    /\ \E pts \in {generateSampleDataset("linear", SimulatorN, rng)} :
          \E div \in DivergenceChoices :
              Flush("regenerate", learningRate, iterations, pts, speed, div,
                    Append(epochUpdates, SetEpoch("sync", 0)),
                    Append(playingUpdates, SetPlaying("sync", FALSE)))
    /\ rng' = RngAfter(rng, SimulatorN)
    /\ UNCHANGED notSimVars

\* The timeout fires: setCurrentEpoch(prev => prev + 1). The browser runs
\* the tasks that wait in the order they became ready, the user's inputs
\* first: a timeout does not run before a render that was scheduled
\* before the timeout was set
TimerFires(id) ==
    /\ id \in timers
    /\ ~RenderPending
    /\ timers' = timers \ {id}
    /\ epochUpdates' = Append(epochUpdates, Inc("default"))
    /\ UNCHANGED <<points, learningRate, iterations, rng, isPlaying,
                   currentEpoch, speed, animationRef, gdResult, divergesAt,
                   epochBase, playingBase, playingUpdates, inputs,
                   lastInput, notSimVars>>

\* The task of React's scheduler that renders the updates made outside of
\* the handlers
RenderTask ==
    /\ RenderPending
    /\ Render(TRUE, learningRate, iterations, points, speed, divergesAt,
              epochUpdates, playingUpdates)
    /\ UNCHANGED <<rng, inputs, lastInput, notSimVars>>

NextSim ==
    \/ HandlePlay
    \/ HandlePause
    \/ HandleStep
    \/ HandleReset
    \/ HandleSkipToEnd
    \/ \E lr \in LearningRateChoices : ChangeLearningRate(lr)
    \/ \E iters \in IterationChoices : ChangeIterations(iters)
    \/ \E spd \in SpeedChoices : ChangeSpeed(spd)
    \/ RegenerateData
    \/ \E id \in TimerIds : TimerFires(id)
    \/ RenderTask

SpecSim == InitSim /\ [][NextSim]_vars

\* The browser runs every timeout that is due and every task that waits
SpecSimFair ==
    /\ SpecSim
    /\ WF_vars(\E id \in TimerIds : TimerFires(id))
    /\ WF_vars(RenderTask)

\* ------------------------------------------------------------------------
\* Properties of gradientDescent
\* ------------------------------------------------------------------------
Last(h) == h[Len(h)]

\* Every record of h carries the slope m and the intercept b
CarriesParams(h, m, b) ==
    \A k \in 1..Len(h) : StrictEq(h[k].slope, m) /\ StrictEq(h[k].intercept, b)

\* C1: a finished run on the empty dataset with iterations >= 1 returns the
\* initial slope and intercept, and every recorded epoch carries them.
C1_EmptyDatasetKeepsParams ==
    (pc = "done" /\ Len(points) = 0 /\ iterations >= 1)
        => /\ StrictEq(result.finalSlope, initialSlope)
           /\ StrictEq(result.finalIntercept, initialIntercept)
           /\ CarriesParams(result.history, initialSlope, initialIntercept)

\* C2: in every result, converged is true exactly when the history is
\* non-empty and its last loss is finite; a run stopped by a non-finite loss
\* and a run with iterations = 0 report converged = false.
C2_ConvergedIffLastLossFinite ==
    pc = "done"
        => /\ result.converged
                <=> (result.history # <<>>
                     /\ Last(result.history).loss[1] = "fin")
           /\ iterations = 0 => ~result.converged
           /\ (result.history # <<>>
               /\ Last(result.history).loss[1] # "fin") => ~result.converged

C2_Witness ==
    /\ pc = "done"
    /\ result.history # <<>>
    /\ Last(result.history).loss[1] # "fin"
    /\ ~result.converged

\* C3: the history never has more records than iterations, a non-finite loss
\* appears only in the last record, and once it is recorded the loop has
\* been left.
C3_HaltsAtFirstNonFiniteLoss ==
    /\ Len(history) <= iterations
    /\ \A k \in 1..(Len(history) - 1) : history[k].loss[1] = "fin"
    /\ (history # <<>> /\ Last(history).loss[1] # "fin") => pc # "loop"
    /\ pc = "done" => result.history = history

C3_Witness ==
    /\ pc = "done"
    /\ Len(result.history) >= 2
    /\ Len(result.history) < iterations
    /\ Last(result.history).loss[1] # "fin"

\* C4: with learningRate = 0 every record of the history carries the initial
\* slope and intercept, and all records have the same loss, whatever the
\* dataset (the empty one included).
C4_ZeroLearningRateKeepsParams ==
    learningRate = Zero
        => /\ CarriesParams(history, initialSlope, initialIntercept)
           /\ \A k \in 1..Len(history) :
                  StrictEq(history[k].loss, history[1].loss)

\* C5: a finished run with iterations = 0 has an empty history, returns the
\* initial slope and intercept and reports converged = false.
C5_ZeroIterationsRunsNoEpoch ==
    (pc = "done" /\ iterations = 0)
        => /\ result.history = <<>>
           /\ StrictEq(result.finalSlope, initialSlope)
           /\ StrictEq(result.finalIntercept, initialIntercept)
           /\ result.converged = FALSE

C5_Witness ==
    /\ pc = "done"
    /\ iterations = 0
    /\ points # <<>>
    /\ learningRate # Zero
    /\ result.history = <<>>

\* The sum of the first k numbers of a sequence, added from left to right
RECURSIVE SumOf(_, _)
SumOf(terms, k) == IF k = 0 THEN Zero ELSE FAdd(SumOf(terms, k - 1), terms[k])

\* (2 / n) * sum of (prediction_j - y_j) * x_j at the parameters (m, b)
ClaimedSlopeGradient(pts, m, b) ==
    FMul(FDiv(FromInt(2), FromInt(Len(pts))),
         SumOf([j \in 1..Len(pts) |->
                   FMul(FSub(FAdd(FMul(m, pts[j].x), b), pts[j].y), pts[j].x)],
               Len(pts)))

\* (2 / n) * sum of (prediction_j - y_j) at the parameters (m, b)
ClaimedInterceptGradient(pts, m, b) ==
    FMul(FDiv(FromInt(2), FromInt(Len(pts))),
         SumOf([j \in 1..Len(pts) |->
                   FSub(FAdd(FMul(m, pts[j].x), b), pts[j].y)],
               Len(pts)))

\* The parameters before epoch k
SlopeBefore(k) == IF k = 1 THEN initialSlope ELSE history[k - 1].slope

InterceptBefore(k) ==
    IF k = 1 THEN initialIntercept ELSE history[k - 1].intercept

\* C17: the k-th record of the history has epoch = k, the two gradients
\* computed from the parameters before epoch k, the parameters after
\* subtracting learningRate times those gradients, and the MSE at the new
\* parameters as its loss.  (Values are compared as values: on the empty
\* dataset both sides are NaN.)
C17_RecordsDescribeTheEpochs ==
    \A k \in 1..Len(history) :
        /\ history[k].epoch = k
        /\ history[k].slopeGradient
              = ClaimedSlopeGradient(points, SlopeBefore(k), InterceptBefore(k))
        /\ history[k].interceptGradient
              = ClaimedInterceptGradient(points, SlopeBefore(k),
                                         InterceptBefore(k))
        /\ history[k].slope
              = FSub(SlopeBefore(k),
                     FMul(learningRate, history[k].slopeGradient))
        /\ history[k].intercept
              = FSub(InterceptBefore(k),
                     FMul(learningRate, history[k].interceptGradient))
        /\ history[k].loss
              = calculateMSE(points, history[k].slope, history[k].intercept)

C17_Witness ==
    /\ pc = "done" /\ Len(points) = 2 /\ Len(history) = 3
    /\ learningRate # Zero
    /\ \A k \in 1..3 : isFinite(history[k].loss) /\ history[k].epoch = k
    /\ history[1].slopeGradient # Zero
    /\ history[2].slopeGradient # history[1].slopeGradient
    /\ history[3].slopeGradient # history[2].slopeGradient
    /\ history[2].interceptGradient # history[1].interceptGradient
    /\ history[3].slope # history[2].slope
    /\ history[3].loss # history[2].loss

\* The learning rate that overflows in one epoch
LargeRate == FromInt(1024)

AllXZero(pts) == \A k \in 1..Len(pts) : pts[k].x = Zero

\* Some gradient at the initial parameters is a non-zero number
InitialGradientNonZero ==
    LET gs == ClaimedSlopeGradient(points, initialSlope, initialIntercept)
        gi == ClaimedInterceptGradient(points, initialSlope, initialIntercept)
    IN  /\ ~isNaN(gs) /\ ~isNaN(gi)
        /\ gs # Zero \/ gi # Zero

\* The run was stopped by a non-finite loss before the requested number of
\* epochs
StoppedByOverflow ==
    /\ result.history # <<>>
    /\ ~isFinite(Last(result.history).loss)
    /\ ~result.converged
    /\ Len(result.history) < iterations

\* C18 as claimed: with the large learning rate, on a dataset whose x values
\* are not all zero (and with room for 2 epochs or more), the run reaches a
\* non-finite loss, stops there and returns converged = false with fewer
\* records than iterations.
C18_LargeRateDiverges_Claimed ==
    (/\ pc = "done" /\ learningRate = LargeRate /\ iterations >= 2
     /\ ~AllXZero(points))
        => StoppedByOverflow

\* C18 amended: the same, when moreover some gradient at the initial
\* parameters is not zero.
C18_LargeRateDiverges_NonZeroGradient ==
    (/\ pc = "done" /\ learningRate = LargeRate /\ iterations >= 2
     /\ ~AllXZero(points)
     /\ InitialGradientNonZero)
        => StoppedByOverflow

C18_Witness ==
    /\ pc = "done" /\ learningRate = LargeRate /\ iterations = MaxIter
    /\ Len(points) = 2 /\ ~AllXZero(points)
    /\ InitialGradientNonZero
    /\ StoppedByOverflow

\* ------------------------------------------------------------------------
\* Properties of calculateLinearRegression, calculateMSE and calculateR2
\* ------------------------------------------------------------------------
One == FromInt(1)

\* An operation is exact when its result is not rounded.
AddExact(x, y) ==
    /\ isFinite(x) /\ isFinite(y)
    /\ \/ x[2] = 0
       \/ y[2] = 0
       \/ /\ Abs((BitLen(Abs(x[2])) + x[3]) - (BitLen(Abs(y[2])) + y[3]))
                <= Prec + 2
          /\ LET e == Min2(x[3], y[3])
             IN  FAdd(x, y)
                   = Norm(x[2] * 2^(x[3] - e) + y[2] * 2^(y[3] - e), e)

SubExact(x, y) == AddExact(x, FNeg(y))

MulExact(x, y) ==
    /\ isFinite(x) /\ isFinite(y)
    /\ FMul(x, y) = Norm(x[2] * y[2], x[3] + y[3])

DivExact(x, y) ==
    /\ isFinite(x) /\ isFinite(y) /\ y[2] # 0
    /\ LET q == FDiv(x, y)
       IN  isFinite(q) /\ Norm(q[2] * y[2], q[3] + y[3]) = x

\* No operation of calculateLinearRegression(pts) is rounded
FitExact(pts) ==
    LET n == Len(pts)
        meanX == MeanX(pts)
        meanY == MeanY(pts)
        num == Numerator(pts, meanX, meanY, n)
        den == Denominator(pts, meanX, n)
        m == SlopeOf(num, den)
    IN  /\ n >= 2
        /\ \A k \in 1..n :
              /\ AddExact(SumX(pts, k - 1), pts[k].x)
              /\ AddExact(SumY(pts, k - 1), pts[k].y)
        /\ DivExact(SumX(pts, n), FromInt(n))
        /\ DivExact(SumY(pts, n), FromInt(n))
        /\ \A k \in 1..n :
              LET dx == FSub(pts[k].x, meanX)
                  dy == FSub(pts[k].y, meanY)
              IN  /\ SubExact(pts[k].x, meanX)
                  /\ SubExact(pts[k].y, meanY)
                  /\ MulExact(dx, dy)
                  /\ MulExact(dx, dx)
                  /\ AddExact(Numerator(pts, meanX, meanY, k - 1), FMul(dx, dy))
                  /\ AddExact(Denominator(pts, meanX, k - 1), FMul(dx, dx))
        /\ StrictEq(den, Zero) \/ DivExact(num, den)
        /\ MulExact(m, meanX)
        /\ SubExact(meanY, FMul(m, meanX))

\* No operation of calculateMSE(pts, m, b) is rounded
MSEExact(pts, m, b) ==
    /\ \A k \in 1..Len(pts) :
          LET mx == FMul(m, pts[k].x)
              r == FSub(pts[k].y, FAdd(mx, b))
          IN  /\ MulExact(m, pts[k].x)
              /\ AddExact(mx, b)
              /\ SubExact(pts[k].y, FAdd(mx, b))
              /\ MulExact(r, r)
              /\ AddExact(SumSquaredError(pts, m, b, k - 1), FMul(r, r))
    /\ Len(pts) = 0
         \/ DivExact(SumSquaredError(pts, m, b, Len(pts)), FromInt(Len(pts)))

AllSameX(pts) == \A j, k \in 1..Len(pts) : pts[j].x = pts[k].x

AllSameY(pts) == \A j, k \in 1..Len(pts) : pts[j].y = pts[k].y

\* Every point of pts satisfies y = m * x + b, as the code evaluates it
OnLine(pts, m, b) ==
    \A k \in 1..Len(pts) : StrictEq(pts[k].y, FAdd(FMul(m, pts[k].x), b))

\* ... and m * x + b is evaluated without rounding
OnLineExactly(pts, m, b) ==
    /\ OnLine(pts, m, b)
    /\ \A k \in 1..Len(pts) :
          MulExact(m, pts[k].x) /\ AddExact(FMul(m, pts[k].x), b)

\* The computed SS_tot of calculateR2(pts, ...)
ComputedSsTot(pts) == SsTot(pts, MeanY(pts), Len(pts))

\* C6 as claimed: for 2 or more points whose x values are not all equal, the
\* MSE at the fitted slope and intercept is <= the MSE at every other pair.
C6_FitMinimisesMSE_Claimed ==
    (fpc = "evaluated" /\ Len(points) >= 2 /\ ~AllSameX(points))
        => FLe(metrics.mse, candidateMetrics.mse)

\* C6 amended: the same, for the runs in which no operation of the fit and
\* of the two MSE evaluations is rounded.
C6_FitMinimisesMSE_WhenExact ==
    (/\ fpc = "evaluated" /\ Len(points) >= 2 /\ ~AllSameX(points)
     /\ FitExact(points)
     /\ MSEExact(points, regression.slope, regression.intercept)
     /\ MSEExact(points, candidate.slope, candidate.intercept))
        => FLe(metrics.mse, candidateMetrics.mse)

C6_Witness ==
    /\ fpc = "evaluated" /\ Len(points) >= 3 /\ ~AllSameX(points)
    /\ FitExact(points)
    /\ MSEExact(points, regression.slope, regression.intercept)
    /\ MSEExact(points, candidate.slope, candidate.intercept)
    /\ metrics.mse # Zero
    /\ FLt(metrics.mse, candidateMetrics.mse)

\* C7: on fewer than 2 points the fit is slope = 0, intercept = 0 and an
\* empty predictions list.
C7_FewerThanTwoPoints ==
    (fpc # "input" /\ Len(points) < 2)
        => /\ StrictEq(regression.slope, Zero)
           /\ StrictEq(regression.intercept, Zero)
           /\ regression.predictions = <<>>

C7_Witness ==
    /\ fpc = "fitted" /\ Len(points) = 1
    /\ points[1].y # Zero
    /\ regression.slope = Zero /\ regression.intercept = Zero

\* C8: on 2 or more points that all share the same x the fit is slope = 0
\* and intercept = meanY.
C8_SameXGivesZeroSlope ==
    (fpc # "input" /\ Len(points) >= 2 /\ AllSameX(points))
        => /\ StrictEq(regression.slope, Zero)
           /\ StrictEq(regression.intercept, regression.meanY)

\* C9 as claimed: when every point lies on y = m * x + b and there are 2
\* distinct x values, the fit is slope = m, intercept = b, its MSE is 0 and,
\* when m is not 0, its R2 is 1.
C9_PointsOnALine_Claimed ==
    (/\ fpc = "evaluated" /\ ~AllSameX(points)
     /\ OnLineExactly(points, candidate.slope, candidate.intercept))
        => /\ StrictEq(regression.slope, candidate.slope)
           /\ StrictEq(regression.intercept, candidate.intercept)
           /\ StrictEq(metrics.mse, Zero)
           /\ candidate.slope # Zero => StrictEq(metrics.r2, One)

\* C9 amended: the same, for the runs in which no operation of the fit is
\* rounded, and R2 = 1 when moreover the computed SS_tot is not zero.
C9_PointsOnALine_WhenExact ==
    (/\ fpc = "evaluated" /\ ~AllSameX(points)
     /\ OnLineExactly(points, candidate.slope, candidate.intercept)
     /\ FitExact(points))
        => /\ StrictEq(regression.slope, candidate.slope)
           /\ StrictEq(regression.intercept, candidate.intercept)
           /\ StrictEq(metrics.mse, Zero)
           /\ (candidate.slope # Zero /\ ComputedSsTot(points) # Zero)
                 => StrictEq(metrics.r2, One)

C9_Witness ==
    /\ fpc = "evaluated"
    /\ points = ExamplePoints
    /\ candidate = [slope |-> FromInt(2), intercept |-> Zero]
    /\ FitExact(points)
    /\ regression.slope = FromInt(2) /\ regression.intercept = Zero
    /\ metrics.mse = Zero /\ metrics.r2 = One

\* C10 as claimed: calculateR2 is exactly 1 at any (slope, intercept) whose
\* line every point lies on, when the y values are not all equal.
C10_R2IsOneOnTheLine_Claimed ==
    (/\ fpc = "evaluated" /\ ~AllSameY(points)
     /\ OnLine(points, candidate.slope, candidate.intercept))
        => StrictEq(candidateMetrics.r2, One)

\* C10 amended: the same, when the computed SS_tot is not zero.
C10_R2IsOneOnTheLine_NonZeroSsTot ==
    (/\ fpc = "evaluated" /\ Len(points) >= 2
     /\ ComputedSsTot(points) # Zero
     /\ OnLine(points, candidate.slope, candidate.intercept))
        => StrictEq(candidateMetrics.r2, One)

C10_Witness ==
    /\ fpc = "evaluated" /\ Len(points) >= 3
    /\ ComputedSsTot(points) # Zero
    /\ OnLine(points, candidate.slope, candidate.intercept)
    /\ regression.slope # candidate.slope
    /\ candidateMetrics.r2 = One

\* C11: calculateR2 is 0, at the fitted pair and at every other pair, when
\* the dataset has fewer than 2 points or all its y values are equal.
C11_R2IsZeroWhenDegenerate ==
    (fpc = "evaluated" /\ (Len(points) < 2 \/ AllSameY(points)))
        => /\ StrictEq(metrics.r2, Zero)
           /\ StrictEq(candidateMetrics.r2, Zero)

\* r is the non-negative square root of x rounded to the nearest
\* representable value: x lies between the squares of the two midpoints
\* that separate r from its neighbours.
IsSqrtOf(r, x) ==
    IF isNaN(x) \/ x[2] < 0 THEN isNaN(r)
    ELSE IF ~isFinite(x) THEN r = PosInf
    ELSE IF x = Zero THEN r = Zero
    ELSE /\ isFinite(r)
         /\ r[2] > 0
         /\ LET sh == Prec - BitLen(r[2])
                M == r[2] * 2^sh
                E == r[3] - sh
                lo == IF M = 2^(Prec - 1) THEN 4 * M - 1 ELSE 4 * M - 2
                hi == 4 * M + 2
                d == x[3] - (2 * E - 4)
            IN  /\ d \in 0..(2 * Prec + 5)
                /\ lo * lo <= x[2] * 2^d
                /\ x[2] * 2^d <= hi * hi

\* C12: calculateRMSE is the non-negative square root of calculateMSE on the
\* same arguments, and the rmse field of calculateAllMetrics is the square
\* root of its mse field.
C12_RMSEIsSqrtOfMSE ==
    fpc = "evaluated"
        => /\ IsSqrtOf(calculateRMSE(points, candidate.slope,
                                     candidate.intercept),
                       calculateMSE(points, candidate.slope,
                                    candidate.intercept))
           /\ IsSqrtOf(candidateMetrics.rmse, candidateMetrics.mse)
           /\ IsSqrtOf(metrics.rmse, metrics.mse)

C12_Witness ==
    /\ fpc = "evaluated" /\ Len(points) >= 2
    /\ isFinite(candidateMetrics.mse)
    /\ candidateMetrics.mse # Zero
    /\ FMul(candidateMetrics.rmse, candidateMetrics.rmse)
           # candidateMetrics.mse
    /\ IsSqrtOf(candidateMetrics.rmse, candidateMetrics.mse)

\* C13: calculateMSE and calculateMAE are 0 on the empty dataset, at every
\* slope and intercept.
C13_EmptyDatasetHasZeroError ==
    (fpc = "evaluated" /\ Len(points) = 0)
        => /\ StrictEq(calculateMSE(points, candidate.slope,
                                    candidate.intercept), Zero)
           /\ StrictEq(calculateMAE(points, candidate.slope,
                                    candidate.intercept), Zero)
           /\ StrictEq(candidateMetrics.mse, Zero)
           /\ StrictEq(candidateMetrics.mae, Zero)

C13_Witness ==
    /\ fpc = "evaluated" /\ Len(points) = 0
    /\ candidate.slope # Zero /\ candidate.intercept # Zero
    /\ candidateMetrics.mse = Zero /\ candidateMetrics.mae = Zero

\* C20: for 2 or more points the predictions list has one entry per point,
\* in input order, with x = x_i, yActual = y_i and
\* yPredicted = slope * x_i + intercept for the returned slope and intercept.
C20_PredictionsFollowThePoints ==
    (fpc # "input" /\ Len(points) >= 2)
        => /\ Len(regression.predictions) = Len(points)
           /\ \A k \in 1..Len(points) :
                 /\ regression.predictions[k].x = points[k].x
                 /\ regression.predictions[k].yActual = points[k].y
                 /\ regression.predictions[k].yPredicted
                       = FAdd(FMul(regression.slope, points[k].x),
                              regression.intercept)

C20_Witness ==
    /\ fpc = "fitted" /\ Len(points) = 3
    /\ regression.slope # Zero /\ regression.intercept # Zero
    /\ points[1].x # points[3].x
    /\ \E k \in 1..3 :
          regression.predictions[k].yPredicted # points[k].y
    /\ \A k \in 1..3 :
          regression.predictions[k]
            = [x |-> points[k].x, yActual |-> points[k].y,
               yPredicted |-> FAdd(FMul(regression.slope, points[k].x),
                                   regression.intercept)]

\* ------------------------------------------------------------------------
\* Properties of detectOutliers
\* ------------------------------------------------------------------------
\* |y_k - (m * x_k + b)| of the k-th point
AbsResidual(pts, m, b, k) ==
    FAbs(FSub(pts[k].y, FAdd(FMul(m, pts[k].x), b)))

\* The element at position pos (from 0) of the ascending-sorted absolute
\* residuals: fewer than pos + 1 residuals are smaller, and at least pos + 1
\* are not greater.
SortedResidualAt(pts, m, b, pos) ==
    CHOOSE v \in {AbsResidual(pts, m, b, k) : k \in 1..Len(pts)} :
        /\ Cardinality({k \in 1..Len(pts) :
                            FLt(AbsResidual(pts, m, b, k), v)}) <= pos
        /\ Cardinality({k \in 1..Len(pts) :
                            FLe(AbsResidual(pts, m, b, k), v)}) > pos

\* Q3 + 1.5 * (Q3 - Q1) with Q1 and Q3 at the positions floor(0.25 * n) and
\* floor(0.75 * n)
ClaimedThreshold(pts, m, b) ==
    LET q1 == SortedResidualAt(pts, m, b, Len(pts) \div 4)
        q3 == SortedResidualAt(pts, m, b, (3 * Len(pts)) \div 4)
    IN  FAdd(q3, FMul(Lit(3, 2), FSub(q3, q1)))

\* C14: detectOutliers is empty on every dataset of fewer than 4 points.
C14_FewerThanFourPoints ==
    (fpc = "detected" /\ Len(points) < 4) => outliers = <<>>

C14_Witness ==
    /\ fpc = "detected" /\ Len(points) = 3
    /\ \E j, k \in 1..3 :
          FLt(AbsResidual(points, candidate.slope, candidate.intercept, j),
              AbsResidual(points, candidate.slope, candidate.intercept, k))
    /\ outliers = <<>>

\* C15: on 4 or more points detectOutliers is the ascending list of the
\* indices (from 0, in the original order) of the points whose absolute
\* residual is strictly greater than Q3 + 1.5 * (Q3 - Q1); a residual equal
\* to the threshold is not listed.
C15_OutliersAreAboveTheThreshold ==
    (fpc = "detected" /\ Len(points) >= 4)
        => LET m == candidate.slope
               b == candidate.intercept
               threshold == ClaimedThreshold(points, m, b)
           IN  /\ \A j, k \in 1..Len(outliers) :
                     j < k => outliers[j] < outliers[k]
               /\ {outliers[k] : k \in 1..Len(outliers)}
                     = {k - 1 : k \in {j \in 1..Len(points) :
                           FLt(threshold, AbsResidual(points, m, b, j))}}
               /\ \A k \in 1..Len(points) :
                     AbsResidual(points, m, b, k) = threshold
                         => \A j \in 1..Len(outliers) : outliers[j] # k - 1

C15_Witness ==
    /\ fpc = "detected" /\ Len(points) = MaxLenOut
    /\ candidate.slope # Zero
    /\ outliers # <<>>
    /\ outliers[1] # 0
    /\ LET m == candidate.slope
           b == candidate.intercept
           q1 == SortedResidualAt(points, m, b, Len(points) \div 4)
           q3 == SortedResidualAt(points, m, b, (3 * Len(points)) \div 4)
       IN  /\ q1 # Zero
           /\ q3 # q1
           /\ FLt(q3, ClaimedThreshold(points, m, b))

\* A residual equal to a non-zero threshold, above Q3, is not an outlier
C15_EqualToThreshold ==
    /\ fpc = "detected" /\ Len(points) >= 4
    /\ outliers = <<>>
    /\ LET m == candidate.slope
           b == candidate.intercept
       IN  /\ FLt(SortedResidualAt(points, m, b, (3 * Len(points)) \div 4),
                  ClaimedThreshold(points, m, b))
           /\ \E k \in 1..Len(points) :
                 AbsResidual(points, m, b, k) = ClaimedThreshold(points, m, b)

\* C30: on 4 or more points detectOutliers never lists a point whose
\* absolute residual is at or below the Q3 element (the sorted residual at
\* position floor(0.75 * n)); it lists at most n - floor(0.75 * n) - 1
\* indices, distinct, ascending and within 0..n-1, and none at all on
\* exactly 4 points.
C30_NothingAtOrBelowQ3 ==
    (fpc = "detected" /\ Len(points) >= 4)
        => LET n == Len(points)
               m == candidate.slope
               b == candidate.intercept
               q3 == SortedResidualAt(points, m, b, (3 * n) \div 4)
           IN  /\ \A j \in 1..Len(outliers) :
                     /\ outliers[j] \in 0..(n - 1)
                     /\ FLt(q3, AbsResidual(points, m, b, outliers[j] + 1))
               /\ \A j, k \in 1..Len(outliers) :
                     j < k => outliers[j] < outliers[k]
               /\ Len(outliers) <= n - ((3 * n) \div 4) - 1
               /\ n = 4 => outliers = <<>>

\* The largest number of outliers the quartile positions allow, next to an
\* unlisted point with the non-zero Q3 residual
C30_Witness ==
    /\ fpc = "detected" /\ Len(points) > 4
    /\ candidate.slope # Zero
    /\ Len(outliers) = Len(points) - ((3 * Len(points)) \div 4) - 1
    /\ Len(outliers) > 0
    /\ LET m == candidate.slope
           b == candidate.intercept
           q3 == SortedResidualAt(points, m, b, (3 * Len(points)) \div 4)
       IN  /\ q3 # Zero
           /\ \E k \in 1..Len(points) :
                 /\ AbsResidual(points, m, b, k) = q3
                 /\ \A j \in 1..Len(outliers) : outliers[j] # k - 1

\* ------------------------------------------------------------------------
\* Properties of generateCostSurface
\* ------------------------------------------------------------------------
\* C16: with resolution r >= 1 the three arrays have r + 1 rows of r + 1
\* entries, slopes[i][j] = slopeRange[0] + i * slopeStep,
\* intercepts[i][j] = interceptRange[0] + j * interceptStep with the steps
\* (max - min) / r, and costs[i][j] = calculateMSE(points, slopes[i][j],
\* intercepts[i][j]), for all i, j in 0..r.
C16_SurfaceIsTheGrid ==
    (fpc = "surface" /\ surfaceArgs.resolution >= 1)
        => LET r == surfaceArgs.resolution
               sr == surfaceArgs.slopeRange
               ir == surfaceArgs.interceptRange
               slopeStep == FDiv(FSub(sr[2], sr[1]), FromInt(r))
               interceptStep == FDiv(FSub(ir[2], ir[1]), FromInt(r))
           IN  /\ \A name \in {"slopes", "intercepts", "costs"} :
                     /\ Len(surface[name]) = r + 1
                     /\ \A row \in 1..(r + 1) : Len(surface[name][row]) = r + 1
               /\ \A row, col \in 0..r :
                     /\ surface.slopes[row + 1][col + 1]
                           = FAdd(sr[1], FMul(FromInt(row), slopeStep))
                     /\ surface.intercepts[row + 1][col + 1]
                           = FAdd(ir[1], FMul(FromInt(col), interceptStep))
                     /\ surface.costs[row + 1][col + 1]
                           = calculateMSE(points,
                                          surface.slopes[row + 1][col + 1],
                                          surface.intercepts[row + 1][col + 1])

C16_Witness ==
    /\ fpc = "surface" /\ surfaceArgs.resolution = MaxResolution
    /\ surfaceArgs.slopeRange = <<FromInt(-2), FromInt(2)>>
    /\ surfaceArgs.interceptRange = <<FromInt(-5), FromInt(5)>>
    /\ Len(points) = 2
    /\ Len(surface.costs) = MaxResolution + 1
    /\ surface.slopes[2][1] # surface.slopes[1][2]
    /\ surface.intercepts[1][3] = FromInt(5)
    /\ surface.costs[2][1] # surface.costs[1][2]
    /\ surface.costs[3][3] # surface.costs[1][1]

\* ------------------------------------------------------------------------
\* Properties of the order of the points
\* ------------------------------------------------------------------------
\* No operation of calculateMAE(pts, m, b) is rounded
MAEExact(pts, m, b) ==
    /\ \A k \in 1..Len(pts) :
          LET mx == FMul(m, pts[k].x)
              r == FSub(pts[k].y, FAdd(mx, b))
          IN  /\ MulExact(m, pts[k].x)
              /\ AddExact(mx, b)
              /\ SubExact(pts[k].y, FAdd(mx, b))
              /\ AddExact(SumAbsoluteError(pts, m, b, k - 1), FAbs(r))
    /\ Len(pts) = 0
         \/ DivExact(SumAbsoluteError(pts, m, b, Len(pts)), FromInt(Len(pts)))

\* No operation of calculateR2(pts, m, b) is rounded
R2Exact(pts, m, b) ==
    \/ Len(pts) < 2
    \/ LET n == Len(pts)
           meanY == MeanY(pts)
           ssRes == SumSquaredError(pts, m, b, n)
           ssTot == SsTot(pts, meanY, n)
       IN  /\ \A k \in 1..n : AddExact(SumY(pts, k - 1), pts[k].y)
           /\ DivExact(SumY(pts, n), FromInt(n))
           /\ \A k \in 1..n :
                 LET mx == FMul(m, pts[k].x)
                     r == FSub(pts[k].y, FAdd(mx, b))
                     dy == FSub(pts[k].y, meanY)
                 IN  /\ MulExact(m, pts[k].x)
                     /\ AddExact(mx, b)
                     /\ SubExact(pts[k].y, FAdd(mx, b))
                     /\ MulExact(r, r)
                     /\ AddExact(SumSquaredError(pts, m, b, k - 1), FMul(r, r))
                     /\ SubExact(pts[k].y, meanY)
                     /\ MulExact(dy, dy)
                     /\ AddExact(SsTot(pts, meanY, k - 1), FMul(dy, dy))
           /\ \/ StrictEq(ssTot, Zero)
              \/ /\ DivExact(ssRes, ssTot)
                 /\ SubExact(One, FDiv(ssRes, ssTot))

\* No operation of the fit of pts and of the three metrics at (m, b) is
\* rounded
AllExact(pts, m, b) ==
    /\ Len(pts) < 2 \/ FitExact(pts)
    /\ MSEExact(pts, m, b)
    /\ MAEExact(pts, m, b)
    /\ R2Exact(pts, m, b)

\* The fit and the metrics of the reordered points are those of the points
SameFitAndMetrics ==
    /\ reordered.regression.slope = regression.slope
    /\ reordered.regression.intercept = regression.intercept
    /\ Len(points) >= 2
          => /\ reordered.regression.meanX = regression.meanX
             /\ reordered.regression.meanY = regression.meanY
    /\ reordered.metrics.mse = candidateMetrics.mse
    /\ reordered.metrics.mae = candidateMetrics.mae
    /\ reordered.metrics.r2 = candidateMetrics.r2

\* detectOutliers flags the same points in both orders
SamePointsFlagged ==
    {reordered.from[reordered.outliers[k] + 1] - 1 :
        k \in 1..Len(reordered.outliers)}
      = {outliers[k] : k \in 1..Len(outliers)}

\* C19 as claimed: the fit (slope, intercept, meanX, meanY), the MSE, the MAE
\* and the R2 of the points do not depend on their order, and detectOutliers
\* flags the same points in every order.
C19_OrderIndependent_Claimed ==
    fpc = "measured" => SameFitAndMetrics /\ SamePointsFlagged

\* C19 amended: detectOutliers flags the same points in every order; the fit
\* and the metrics are the same in two orders when no operation is rounded
\* in either order.
C19_OrderIndependent_WhenExact ==
    fpc = "measured"
        => /\ SamePointsFlagged
           /\ (/\ AllExact(points, candidate.slope, candidate.intercept)
               /\ AllExact(reordered.points, candidate.slope,
                           candidate.intercept))
                 => SameFitAndMetrics

C19_Witness ==
    /\ fpc = "measured" /\ Len(points) = 3
    /\ reordered.points # points
    /\ reordered.from[1] = 3
    /\ AllExact(points, candidate.slope, candidate.intercept)
    /\ AllExact(reordered.points, candidate.slope, candidate.intercept)
    /\ regression.slope # Zero
    /\ candidateMetrics.mse # Zero
    /\ candidateMetrics.r2 # Zero
    /\ SameFitAndMetrics

\* The flagged point has moved with the reordering
C19_FlaggedPointMoved ==
    /\ fpc = "measured" /\ points = FarPoints
    /\ outliers = <<4>>
    /\ reordered.outliers = <<0>>
    /\ SamePointsFlagged

\* ------------------------------------------------------------------------
\* Properties of generateSampleDataset
\* ------------------------------------------------------------------------
\* 2 * x + 3 and 1.5 * x + 5
LinearTrend(x) == FAdd(FMul(FromInt(2), x), FromInt(3))

NoisyTrend(x) == FAdd(FMul(Lit(3, 2), x), FromInt(5))

\* |y - t| <= w
Within(y, t, w) == FLe(FAbs(FSub(y, t)), FromInt(w))

\* C22: a call with a kind that is none of linear, noisy, outliers, random
\* returns what the linear kind returns for the same n: n points, the i-th
\* (from 0) with x = 10 * i / n, evaluated as (i / n) * 10, and y within 1 of
\* 2 * x + 3.
C22_UnknownKindIsLinear ==
    (spc = "return" /\ TypeOf(sampleCall) \notin Kinds)
        => LET n == NOf(sampleCall)
           IN  /\ Len(points) = n
               /\ \A k \in 1..Len(points) :
                     /\ points[k].x
                           = FMul(FDiv(FromInt(k - 1), FromInt(n)),
                                  FromInt(10))
                     /\ Within(points[k].y, LinearTrend(points[k].x), 1)

\* An unknown kind with an n of its own, some points above and some below
\* the trend line
C22_Witness ==
    /\ spc = "return"
    /\ Len(sampleCall) = 2
    /\ sampleCall[1] \notin Kinds
    /\ sampleCall[2] >= 3 /\ sampleCall[2] # DefaultN
    /\ Len(points) = sampleCall[2]
    /\ \E k \in 1..Len(points) :
          FLt(points[k].y, LinearTrend(points[k].x))
    /\ \E k \in 1..Len(points) :
          FLt(LinearTrend(points[k].x), points[k].y)

\* The band of width 1 around t, moved by shift: from (t - 1) + shift to
\* (t + 1) + shift
InMovedBand(y, t, shift) ==
    /\ FLe(FAdd(FSub(t, One), shift), y)
    /\ FLe(y, FAdd(FAdd(t, One), shift))

\* The indices (from 0) whose y is not within 1 of 2 * x + 3
Injected(pts) ==
    {k - 1 : k \in {j \in 1..Len(pts) :
                       ~Within(pts[j].y, LinearTrend(pts[j].x), 1)}}

\* C23: generateSampleDataset('outliers', n) returns n points whose y is
\* within 1 of 2 * x + 3, except at the indices 5 and 15 (when below n), where
\* y lies in that band moved up or down by 15; so n <= 15 gives at most one
\* such point and n <= 5 none.
C23_OutliersAtFiveAndFifteen ==
    (spc = "return" /\ TypeOf(sampleCall) = "outliers")
        => LET n == NOf(sampleCall)
           IN  /\ Len(points) = n
               /\ \A k \in 1..Len(points) :
                     LET y == points[k].y
                         t == LinearTrend(points[k].x)
                     IN  IF k - 1 \in {5, 15}
                         THEN \/ InMovedBand(y, t, FromInt(15))
                              \/ InMovedBand(y, t, FromInt(-15))
                         ELSE Within(y, t, 1)
               /\ Injected(points) = {5, 15} \cap 0..(n - 1)
               /\ n <= 15 => Cardinality(Injected(points)) <= 1
               /\ n <= 5 => Injected(points) = {}

\* Both injected points, one moved up and one moved down
C23_Witness ==
    /\ spc = "return"
    /\ TypeOf(sampleCall) = "outliers"
    /\ Len(points) > 15
    /\ Injected(points) = {5, 15}
    /\ \E j, k \in {6, 16} :
          /\ FLt(points[j].y, LinearTrend(points[j].x))
          /\ FLt(LinearTrend(points[k].x), points[k].y)

\* C24 as claimed: every point of the noisy kind has its y within the noise
\* half-width 4 of the linear kind's trend 2 * x + 3.
C24_NoisyOnLinearTrend_Claimed ==
    (spc = "return" /\ TypeOf(sampleCall) = "noisy")
        => \A k \in 1..Len(points) :
               Within(points[k].y, LinearTrend(points[k].x), 4)

\* C24, amended: the noisy kind has a trend line of its own, 1.5 * x + 5: it
\* returns n points, the i-th (from 0) with x = (i / n) * 10 and y within 4
\* of 1.5 * x + 5.
C24_NoisyOnItsOwnTrend ==
    (spc = "return" /\ TypeOf(sampleCall) = "noisy")
        => LET n == NOf(sampleCall)
           IN  /\ Len(points) = n
               /\ \A k \in 1..Len(points) :
                     /\ points[k].x
                           = FMul(FDiv(FromInt(k - 1), FromInt(n)),
                                  FromInt(10))
                     /\ Within(points[k].y, NoisyTrend(points[k].x), 4)

\* A noisy dataset with a point further than 4 from 2 * x + 3, and points on
\* both sides of 1.5 * x + 5
C24_Witness ==
    /\ spc = "return"
    /\ TypeOf(sampleCall) = "noisy"
    /\ Len(points) >= 3
    /\ \E k \in 1..Len(points) :
          ~Within(points[k].y, LinearTrend(points[k].x), 4)
    /\ \E k \in 1..Len(points) : FLt(points[k].y, NoisyTrend(points[k].x))
    /\ \E k \in 1..Len(points) : FLt(NoisyTrend(points[k].x), points[k].y)

ClaimedLambda(args) == IF Len(args) = 3 THEN args[3] ELSE Lit(1, 10)

\* |w|
Magnitude(w) == IF FLt(w, Zero) THEN FNeg(w) ELSE w

\* C25: ridgeRegularization returns baseCost + lambda * weight^2 and
\* lassoRegularization returns baseCost + lambda * |weight|, also for
\* negative weights and negative lambda, with lambda = 0.1 when omitted;
\* ridge(5, 2, 0.1) is 5.4 and lasso(5, 2, 0.1) is 5.2.
C25_PenaltiesFollowTheFormulas ==
    LET c == penaltyArgs[1]
        w == penaltyArgs[2]
        l == ClaimedLambda(penaltyArgs)
        literal == c = FromInt(5) /\ w = FromInt(2) /\ l = Lit(1, 10)
    IN  /\ ppc = "ridge"
              => /\ cost = FAdd(c, FMul(l, FMul(w, w)))
                 /\ cost = FAdd(c, FMul(l, FMul(Magnitude(w), Magnitude(w))))
                 /\ literal => cost = Lit(54, 10)
        /\ ppc = "lasso"
              => /\ cost = FAdd(c, FMul(l, Magnitude(w)))
                 /\ literal => cost = Lit(52, 10)

\* The lasso penalty of a negative weight under a negative lambda, which
\* lowers the cost
C25_Witness ==
    /\ ppc = "lasso"
    /\ Len(penaltyArgs) = 3
    /\ FLt(penaltyArgs[2], Zero)
    /\ FLt(penaltyArgs[3], Zero)
    /\ FLt(cost, penaltyArgs[1])

\* ------------------------------------------------------------------------
\* Properties of formatNumber
\* ------------------------------------------------------------------------
\* n / 10^f is as close to m * 2^e as a multiple of 10^-f can be
ClosestScaled(n, m, e, f) ==
    IF e >= 0 THEN n = m * 2^e * 10^f
    ELSE IF -e > 29 THEN n = 0
    ELSE Abs(n * 2^(-e) - m * 10^f) * 2 <= 2^(-e)

\* The value is a number other than NaN, Infinity and -Infinity
FiniteNumber(value) == value.type = "number" /\ value.num[1] = "fin"

\* The fixed-decimal string of the value, with 4 decimals
FixedDecimal(text, value) ==
    /\ text.form = "fixed"
    /\ text.decimals = 4
    /\ text.negative = (value.num[2] < 0)
    /\ ClosestScaled(text.scaled, Abs(value.num[2]), value.num[3], 4)

\* C26 as claimed: with decimals left at its default formatNumber returns
\* the placeholder for NaN, Infinity, -Infinity and every value that is not
\* a number, never throws, and returns the fixed-decimal string for every
\* finite number.
C26_PlaceholderOrFixed_Claimed ==
    (formatted # NoText /\ Len(formatArgs) = 1)
        => LET value == formatArgs[1]
           IN  /\ formatted.form \notin {"TypeError", "RangeError"}
               /\ ~FiniteNumber(value) => formatted = Placeholder
               /\ FiniteNumber(value) => FixedDecimal(formatted, value)

\* C26, amended: ... and returns the fixed-decimal string for every finite
\* number of magnitude below 10^21, and the exponent notation of the number
\* from 10^21 on.
C26_PlaceholderOrFixedBelow1e21 ==
    (formatted # NoText /\ Len(formatArgs) = 1)
        => LET value == formatArgs[1]
               large == /\ FiniteNumber(value)
                        /\ value.num[2] # 0
                        /\ AtLeast1e21(Abs(value.num[2]), value.num[3])
           IN  /\ formatted.form \notin {"TypeError", "RangeError"}
               /\ ~FiniteNumber(value) => formatted = Placeholder
               /\ (FiniteNumber(value) /\ ~large)
                     => FixedDecimal(formatted, value)
               /\ large => formatted.form = "exponent"

\* A string that converts to a finite number, answered by the placeholder
C26_Witness ==
    /\ Len(formatArgs) = 1
    /\ formatArgs[1] = Str("5")
    /\ formatted = Placeholder

\* ------------------------------------------------------------------------
\* Properties of RegressionVisualizer
\* ------------------------------------------------------------------------
ValidIndex(k) == k \in 0..(Len(points) - 1)

IndicesAreValid ==
    /\ \A k \in outlierIndices : ValidIndex(k)
    /\ selectedPoint # <<>> => ValidIndex(selectedPoint[1])

\* The index before the deletion of the point that is at index k after it
IndexBefore(k, deleted) == IF k < deleted THEN k ELSE k + 1

MarksStayOnTheirPoints ==
    RemoveSelectedPoint
        => /\ Len(points') = Len(points) - 1
           /\ \A k \in 0..(Len(points') - 1) :
                 LET before == IndexBefore(k, selectedPoint[1])
                 IN  /\ points'[k + 1] = points[before + 1]
                     /\ (k \in outlierIndices') = (before \in outlierIndices)
           /\ \A k \in outlierIndices' : k \in 0..(Len(points') - 1)

\* C29: after any sequence of add-point, select, toggle-outlier,
\* delete-selected, reset and generate-sample, every index in outlierIndices
\* and the selected index (when not null) is an index into points, and the
\* deletion of the selected point leaves the marks on the same remaining
\* points: those below it stay, those above it move down by one, its own is
\* dropped.
C29_IndicesStayValid == []IndicesAreValid /\ [][MarksStayOnTheirPoints]_vars

\* A mark that came down to the last index with the deletion of a point
\* before it
C29_Witness ==
    /\ Len(points) = SampleButtonN - 1
    /\ outlierIndices = {SampleButtonN - 2}
    /\ selectedPoint = <<>>

\* ------------------------------------------------------------------------
\* Properties of GradientDescentSimulator
\* ------------------------------------------------------------------------
\* C27: whatever the user does and whenever the timeouts fire, currentEpoch
\* is within 0..history.length of the run computed for the current state.
C27_EpochWithinHistory == currentEpoch \in 0..gdResult.historyLength

\* The end of the playback
AtTheEnd == currentEpoch = gdResult.historyLength /\ ~isPlaying

\* A step that is no input of the user
NoInput == inputs' = inputs

PlayPressed == inputs' = inputs + 1 /\ lastInput' = "play"

\* C28: after Play, and for as long as the user makes no further input,
\* currentEpoch moves by one at a time and the playback comes to its end,
\* with currentEpoch = history.length and isPlaying = false; Play at the
\* end starts again from epoch 0.
C28_PlaybackRunsToTheEnd ==
    /\ \A k \in 1..MaxSimInputs :
          (lastInput = "play" /\ inputs = k) ~> (AtTheEnd \/ inputs # k)
    /\ [][NoInput /\ currentEpoch' # currentEpoch
             => currentEpoch' = currentEpoch + 1]_vars
    /\ [][AtTheEnd /\ PlayPressed => currentEpoch' = 0 /\ isPlaying']_vars

\* The playback of a run that halted before its last iteration has come to
\* its end by itself
C28_Witness ==
    /\ lastInput = "play"
    /\ AtTheEnd
    /\ gdResult.historyLength = MaxDivergeAt
    /\ gdResult.historyLength < iterations
    /\ ~gdResult.converged

====
